---- MODULE Spec2Model ----
(***************************************************************************)
(* Job manager of Vasteva/MediaConverter (package jobs): the job map, the  *)
(* FIFO queue, the worker pool, cancellation, the JSON job store and the   *)
(* restart recovery performed by cmd/server/main.go.                       *)
(*                                                                         *)
(* The second half models the file scanner (package scanner): processed    *)
(* store, manual / periodic / watch ingestion, delayed processing, Stop    *)
(* and UpdateConfig, and the pattern filter matchesPatterns.               *)
(*                                                                         *)
(* Jobs are Go pointers to Job: the model keeps a heap `job` of job         *)
(* objects; the map `jobs` and the channel `queue` hold object references. *)
(***************************************************************************)
EXTENDS Naturals, Integers, Sequences, FiniteSets, TLC

\* ---- bounds -------------------------------------------------------------
MaxJobs == 2          \* job ids ever generated, and job objects alive at once
MaxRestarts == 1      \* crashes followed by a restart of the process
MaxConcurrentJobs == 2 \* cfg.MaxConcurrentJobs, the number of workers
MaxFiles == 2          \* media files that ever appear in the watch directory
MaxPathLen == 3        \* characters of a path given to matchesPatterns
MaxPatterns == 1       \* globs in an include or exclude list

Ids == 1..MaxJobs
Objs == 1..MaxJobs
Workers == 1..MaxConcurrentJobs
Files == 1..MaxFiles

\* ---- constants of the program -------------------------------------------
StatusPending == "pending"
StatusProcessing == "processing"
StatusCompleted == "completed"
StatusFailed == "failed"
StatusCancelled == "cancelled"

JobTypeExtract == "extract"
JobTypeOptimize == "optimize"
JobTypeTest == "test"

JobTypes == {JobTypeExtract, JobTypeOptimize, JobTypeTest}
Terminal == {StatusCompleted, StatusFailed, StatusCancelled}

\* Values a progress callback may report before the pipeline returns.
ProgressValues == {50}
\* Priorities a request may carry.
Priorities == {0, 1}
\* Errors returned by runExtraction / runOptimization / runTest.
ErrPipeline == "pipeline failed"
ErrCanceled == "context canceled"
\* Errors recorded by the disc-image branch of processJob before `break`.
ErrExtraction == "extraction failed"

\* ScanMode
ScanModeManual == "manual"
ScanModeStartup == "startup"
ScanModePeriodic == "periodic"
ScanModeWatch == "watch"
ScanModeHybrid == "hybrid"
ScanModes == {ScanModeManual, ScanModeStartup, ScanModePeriodic, ScanModeWatch,
              ScanModeHybrid}

\* ScannerConfig, reduced to what Start, handleNewFile and shouldProcessFile
\* read: Mode, Enabled and the MinFileAgeMinutes of the watch directory
\* (0, or 1 for any positive number of minutes).
ScannerConfigs == [mode : ScanModes, enabled : BOOLEAN, minAge : {0, 1}]

\* The configuration main loads at boot: scanner disabled.
BootConfig == [mode |-> ScanModeManual, enabled |-> FALSE, minAge |-> 0]

\* ---- state --------------------------------------------------------------
VARIABLES
  job,        \* heap of Job objects: Objs -> Job record
  nobj,       \* number of objects allocated in this process
  jobs,       \* Manager.jobs: id -> object (0 = no entry)
  queue,      \* Manager.queue: sequence of objects
  adding,     \* AddJob calls between Save and the queue push
  wjob,       \* per worker: object inside processJob (0 = waiting on queue)
  wphase,     \* per worker: "idle", "extract" (disc image phase 1), "run",
              \*   "optimize" (disc image phase 2), "exited" (worker returned)
  disk,       \* the jobs file: id -> persisted record (NoRec = absent)
  requeued,   \* main's RequeuePendingJobs goroutine has run
  epoch,      \* number of restarts so far
  nextId,     \* next id generateID will return
  pred,       \* history: per object, the objects whose AddJob had returned
              \*          when this object's AddJob was called
  recovered,  \* history: what Load found in the jobs file at the last restart
  mstop,      \* Manager.Stop: "running", "stopping" (stopCh closed, in
              \*   wg.Wait), "stopped" (Stop has returned)
  scfg,       \* Scanner.config
  sstop,      \* Scanner.stopCh: "open", or "nil" once Stop has closed it
  sphase,     \* a Stop / UpdateConfig call waiting in wg.Wait: "idle",
              \*   "stopping", "updating"
  supd,       \* locals of the UpdateConfig call in progress
  stasks,     \* goroutines counted by Scanner.wg: subset of {"watch", "periodic"}
  sdelayed,   \* per file: its delayedProcess goroutine ("none", "waiting",
              \*   "stopping" = stopCh closed under it, "fired" = timer case taken)
  sevents,    \* files with a Create event pending in watcher.Events
  fstate,     \* per file: "absent", "young" (mtime newer than the minimum age),
              \*   "rewritten" (written after its delayed task was spawned), "old"
  processed,  \* ProcessedDB.processed: the paths marked in memory
  pstored,    \* the processed file on disk
  marked,     \* history: paths for which MarkProcessed has ever returned
  source,     \* Job.SourcePath of the jobs the scanner created: id -> file
  deferred,   \* history: files handleNewFile deferred since the last Start
  mcall,      \* the last call of the function under check: arguments and result
  schecked,   \* scanner activities between shouldProcessFile and
              \*   createJobForFile: pairs <<activity, file>>
  mlock,      \* Manager.mu and the calls that hold it or wait for it:
              \*   rq ("idle", "loop": RequeuePendingJobs inside its loop
              \*   with the read lock held, "done"), todo (the jobs its range
              \*   has still to visit), waiting (calls blocked in mu.Lock),
              \*   unsaved (AddJob calls between mu.Unlock and m.Save)
  stpos       \* per scanner goroutine: "select" (waiting in its select on
              \*   the stopCh it read), "busy" (in ScanAll or handleNewFile),
              \*   "blind" (waiting in its select after reading a nil stopCh)

mvars == <<job, nobj, jobs, queue, adding, wjob, wphase, disk, requeued,
           epoch, nextId, pred, recovered, mstop>>
svars == <<scfg, sstop, sphase, supd, stasks, sdelayed, sevents, fstate,
           processed, pstored, marked, source, deferred, mcall, schecked, stpos>>
vars == <<mvars, mstop, svars, mlock>>

\* ---- Job and its JSON form ----------------------------------------------
NoJob == [id |-> 0, type |-> "none", disc |-> FALSE, status |-> "none",
          progress |-> 0, error |-> "", cancel |-> FALSE, ctxDone |-> FALSE,
          completedAt |-> FALSE, priority |-> 0, hooked |-> 0,
          parsing |-> FALSE]

NoRec == [id |-> 0]

\* A Job encoding whose Error field is never written.
MarshalNoError(j) ==
  [id |-> j.id, type |-> j.type, disc |-> j.disc, status |-> j.status,
   progress |-> j.progress, error |-> <<>>,
   completedAt |-> j.completedAt, priority |-> j.priority]

\* json.MarshalIndent of a Job: unexported fields (ctx, cancel, cmd) are not
\* written, and Error is omitted when empty (omitempty).
Marshal(j) ==
  [id |-> j.id, type |-> j.type, disc |-> j.disc, status |-> j.status,
   progress |-> j.progress,
   error |-> IF j.error = "" THEN <<>> ELSE <<j.error>>,
   completedAt |-> j.completedAt, priority |-> j.priority]

\* json.Unmarshal into a fresh Job: absent fields take their zero value.
Unmarshal(r) ==
  [id |-> r.id, type |-> r.type, disc |-> r.disc, status |-> r.status,
   progress |-> r.progress,
   error |-> IF r.error = <<>> THEN "" ELSE r.error[1],
   cancel |-> FALSE, ctxDone |-> FALSE,
   completedAt |-> r.completedAt, priority |-> r.priority, hooked |-> 0,
   parsing |-> FALSE]

\* Manager.Save: the file is rewritten with every job of the map.
Save(m, h) ==
  [i \in Ids |-> IF m[i] # 0 THEN Marshal(h[m[i]]) ELSE NoRec]

\* ---- helpers --------------------------------------------------------------
Count(q, o) == Cardinality({i \in 1..Len(q) : q[i] = o})

\* A queue that hands out the newest entry first.
EnqueueLIFO(q, o) == <<o>> \o q

\* m.queue <- job
Enqueue(q, o) == Append(q, o)

\* All orders in which `range m.jobs` can visit a set of objects.
Orders(S) ==
  {s \in [1..Cardinality(S) -> S] : \A a, b \in 1..Cardinality(S) : a # b => s[a] # s[b]}

\* processing / pending: the ids stored as Processing / as Pending;
\* loaded: the number of Job objects Load created.
NoRecovery == [processing |-> {}, pending |-> {}, loaded |-> 0]

\* No UpdateConfig call in progress / no matchesPatterns call made yet.
NoUpdate == [active |-> FALSE]
NoCall == [made |-> FALSE]

\* ---- Init: first boot, no jobs file ---------------------------------------
Init ==
  /\ job = [o \in Objs |-> NoJob]
  /\ nobj = 0
  /\ jobs = [i \in Ids |-> 0]
  /\ queue = <<>>
  /\ adding = {}
  /\ wjob = [w \in Workers |-> 0]
  /\ wphase = [w \in Workers |-> "idle"]
  /\ disk = [i \in Ids |-> NoRec]
  /\ requeued = FALSE
  /\ epoch = 0
  /\ nextId = 1
  /\ pred = [o \in Objs |-> {}]
  /\ recovered = NoRecovery
  /\ mstop = "running"
  /\ scfg = BootConfig
  /\ sstop = "open"
  /\ sphase = "idle"
  /\ supd = NoUpdate
  /\ stasks = {}
  /\ sdelayed = [f \in Files |-> "none"]
  /\ sevents = {}
  /\ fstate = [f \in Files |-> "absent"]
  /\ processed = {}
  /\ pstored = {}
  /\ marked = {}
  /\ source = [i \in Ids |-> 0]
  /\ deferred = {}
  /\ mcall = NoCall
  /\ schecked = {}
  /\ mlock = [rq |-> "idle", todo |-> <<>>, waiting |-> {}, unsaved |-> {}]
  /\ stpos = [t \in {"periodic", "watch"} |-> "select"]

\* ---- AddJob ---------------------------------------------------------------
\* The Job literal built by the HTTP handler and by the scanner.
NewJob(id, type, disc, prio) ==
  [id |-> id, type |-> type, disc |-> disc, status |-> StatusPending,
   progress |-> 0, error |-> "", cancel |-> FALSE, ctxDone |-> FALSE,
   completedAt |-> FALSE, priority |-> prio, hooked |-> 0,
   parsing |-> FALSE]

\* Objects whose AddJob call has returned in this process.
Returned == {o \in Objs : recovered.loaded < o /\ o <= nobj /\ o \notin adding}

\* An AddJob that goes on to the queue push without persisting.
AddJobStoreUnsaved(id, type, disc, prio) ==
  /\ nobj < MaxJobs
  /\ LET o == nobj + 1
     IN /\ job' = [job EXCEPT ![o] = NewJob(id, type, disc, prio)]
        /\ jobs' = [jobs EXCEPT ![id] = o]
        /\ nobj' = o
        /\ adding' = adding \cup {o}
        /\ pred' = [pred EXCEPT ![o] = Returned]
  /\ nextId' = IF id = nextId THEN nextId + 1 ELSE nextId
  /\ UNCHANGED <<queue, wjob, wphase, disk, requeued, epoch, recovered>>

\* AddJob up to and including m.Save(): map write under the lock, persist.
AddJobStore(id, type, disc, prio) ==
  /\ nobj < MaxJobs
  /\ LET o == nobj + 1
         h == [job EXCEPT ![o] = NewJob(id, type, disc, prio)]
         m == [jobs EXCEPT ![id] = o]
     IN /\ job' = h
        /\ jobs' = m
        /\ disk' = Save(m, h)
        /\ nobj' = o
        /\ adding' = adding \cup {o}
        /\ pred' = [pred EXCEPT ![o] = Returned]
  /\ nextId' = IF id = nextId THEN nextId + 1 ELSE nextId
  /\ UNCHANGED <<queue, wjob, wphase, requeued, epoch, recovered>>

\* POST /jobs and Scanner.createJobForFile: a job with a freshly generated id.
AddJob(requests) ==
  /\ nextId <= MaxJobs
  /\ \E r \in requests : AddJobStore(nextId, r.type, r.disc, r.priority)
  /\ UNCHANGED <<mstop, svars, mlock>>

\* The last statement of AddJob: m.queue <- job, then return.
AddJobPush ==
  \E o \in adding :
    /\ queue' = Enqueue(queue, o)
    /\ adding' = adding \ {o}
    /\ UNCHANGED <<job, nobj, jobs, wjob, wphase, disk, requeued, epoch,
                   nextId, pred, recovered, mstop, svars, mlock>>

\* ---- worker / processJob --------------------------------------------------
\* Lines 187-190 of processJob: fresh cancellation scope, status Processing.
ProcessJobBegin(j) ==
  [j EXCEPT !.cancel = TRUE, !.ctxDone = FALSE, !.status = StatusProcessing]

\* Lines 308-320 of processJob, for the value of the function-level `err`.
ProcessJobEnd(j, err) ==
  LET r == IF err # ""
           THEN [j EXCEPT !.status = StatusFailed, !.error = err]
           ELSE [j EXCEPT !.status = StatusCompleted, !.progress = 100]
  IN [r EXCEPT !.completedAt = TRUE]

\* A worker that takes the next job without having finished the last one.
WorkerTakeBusy(w) ==
  /\ queue # <<>>
  /\ LET o == Head(queue)
     IN /\ queue' = Tail(queue)
        /\ job' = [job EXCEPT ![o] = ProcessJobBegin(job[o])]
        /\ wjob' = [wjob EXCEPT ![w] = o]
        /\ wphase' = [wphase EXCEPT ![w] = "run"]
  /\ UNCHANGED <<nobj, jobs, adding, disk, requeued, epoch, nextId, pred,
                 recovered, mstop, svars, mlock>>

\* worker: job := <-m.queue; processJob(job) up to the pipeline dispatch.
WorkerTake(w) ==
  /\ wjob[w] = 0
  /\ wphase[w] = "idle"
  /\ queue # <<>>
  /\ LET o == Head(queue)
     IN /\ queue' = Tail(queue)
        /\ job' = [job EXCEPT ![o] = ProcessJobBegin(job[o])]
        /\ wjob' = [wjob EXCEPT ![w] = o]
        /\ wphase' = [wphase EXCEPT ![w] =
             IF job[o].type = JobTypeOptimize /\ job[o].disc THEN "extract" ELSE "run"]
  /\ UNCHANGED <<nobj, jobs, adding, disk, requeued, epoch, nextId, pred,
                 recovered, mstop, svars, mlock>>

\* A progress callback: job.Progress = p.Percentage; the callback of the
\* disc-image extraction also calls m.Save().
Progress(w, p) ==
  /\ wjob[w] # 0
  /\ LET o == wjob[w]
         h == [job EXCEPT ![o].progress = p]
     IN /\ job' = h
        /\ disk' = IF wphase[w] = "extract" THEN Save(jobs, h) ELSE disk
  /\ UNCHANGED <<nobj, jobs, queue, adding, wjob, wphase, requeued, epoch,
                 nextId, pred, recovered, mstop, svars, mlock>>

\* m.OnJobComplete(job): hooked counts the calls made with this Job value.
OnJobCompleteCall(j) == [j EXCEPT !.hooked = @ + 1]

\* Common tail of processJob taken as one step: the job record after lines
\* 308-320, m.Save(), m.OnJobComplete(job).
Finish(w, j) ==
  /\ LET h == [job EXCEPT ![wjob[w]] = OnJobCompleteCall(j)]
     IN /\ job' = h
        /\ disk' = Save(jobs, h)
  /\ wjob' = [wjob EXCEPT ![w] = 0]
  /\ wphase' = [wphase EXCEPT ![w] = "idle"]
  /\ UNCHANGED <<nobj, jobs, queue, adding, requeued, epoch, nextId, pred,
                 recovered, mstop, svars, mlock>>

\* runExtraction / runOptimization / runTest return err; processJob ends.
PipelineReturn(w) ==
  /\ wphase[w] = "run"
  /\ \E err \in {"", ErrPipeline, ErrCanceled} :
       /\ err = ErrCanceled => job[wjob[w]].ctxDone
       /\ err = ErrPipeline => job[wjob[w]].type # JobTypeTest
       /\ Finish(w, ProcessJobEnd(job[wjob[w]], err))

\* Disc-image branch, a step before the transcode fails: job.Status = Failed,
\* job.Error set, break; the function-level err is still nil.
DiscImageFail(w) ==
  /\ wphase[w] = "extract"
  /\ \E e \in {ErrExtraction} :
       LET j == [job[wjob[w]] EXCEPT !.status = StatusFailed, !.error = e]
       IN Finish(w, ProcessJobEnd(j, ""))

\* Disc-image branch: extraction done, job.SourcePath = files[0] (an .mkv).
DiscImageExtracted(w) ==
  /\ wphase[w] = "extract"
  /\ job' = [job EXCEPT ![wjob[w]].disc = FALSE]
  /\ wphase' = [wphase EXCEPT ![w] = "optimize"]
  /\ UNCHANGED <<nobj, jobs, queue, adding, wjob, disk, requeued, epoch,
                 nextId, pred, recovered, mstop, svars, mlock>>

\* Disc-image branch: err = m.runOptimization(job) assigns the err declared
\* by `info, err := m.makemkv.ScanDisc(...)` inside the branch; on success the
\* original source path is restored. The function-level err is still nil.
DiscImageOptimizeReturn(w) ==
  /\ wphase[w] = "optimize"
  /\ \E err \in {"", ErrPipeline, ErrCanceled} :
       /\ err = ErrCanceled => job[wjob[w]].ctxDone
       /\ LET j == IF err = "" THEN [job[wjob[w]] EXCEPT !.disc = TRUE]
                   ELSE job[wjob[w]]
          IN Finish(w, ProcessJobEnd(j, ""))

\* ---- Stop -----------------------------------------------------------------
\* Manager.Stop up to wg.Wait: close(m.stopCh). Nothing else is signalled.
ManagerStopSignal ==
  /\ mstop = "running"
  /\ mstop' = "stopping"
  /\ UNCHANGED <<job, nobj, jobs, queue, adding, wjob, wphase, disk, requeued,
                 epoch, nextId, pred, recovered, svars, mlock>>

\* worker: back in its select, the stopCh case is taken and the worker returns.
WorkerExit(w) ==
  /\ mstop # "running"
  /\ wphase[w] = "idle"
  /\ wphase' = [wphase EXCEPT ![w] = "exited"]
  /\ UNCHANGED <<job, nobj, jobs, queue, adding, wjob, disk, requeued, epoch,
                 nextId, pred, recovered, mstop, svars, mlock>>

\* Manager.Stop after wg.Wait: every worker has returned.
ManagerStopReturn ==
  /\ mstop = "stopping"
  /\ \A w \in Workers : wphase[w] = "exited"
  /\ mstop' = "stopped"
  /\ UNCHANGED <<job, nobj, jobs, queue, adding, wjob, wphase, disk, requeued,
                 epoch, nextId, pred, recovered, svars, mlock>>

\* ---- CancelJob ------------------------------------------------------------
\* The value CancelJob(id) returns: the map has the id and job.cancel != nil.
CancelJobReturns(id) == jobs[id] # 0 /\ job[jobs[id]].cancel

CancelJob(id) ==
  /\ job' = IF CancelJobReturns(id)
            THEN [job EXCEPT ![jobs[id]].ctxDone = TRUE,
                             ![jobs[id]].status = StatusCancelled]
            ELSE job
  /\ UNCHANGED <<nobj, jobs, queue, adding, wjob, wphase, disk, requeued,
                 epoch, nextId, pred, recovered, mstop, svars, mlock>>

\* ---- restart recovery -----------------------------------------------------
RECURSIVE EnqueueAll(_, _)
EnqueueAll(q, s) ==
  IF s = <<>> THEN q ELSE EnqueueAll(Enqueue(q, Head(s)), Tail(s))

\* RequeuePendingJobs, started once by main as a goroutine: every Pending job
\* of the map is pushed, in the order `range m.jobs` happens to produce.
RequeuePendingJobs ==
  /\ ~requeued
  /\ LET P == {o \in Objs : \E i \in Ids : jobs[i] = o /\ job[o].status = StatusPending}
     IN \E s \in Orders(P) : queue' = EnqueueAll(queue, s)
  /\ requeued' = TRUE
  /\ UNCHANGED <<job, nobj, jobs, adding, wjob, wphase, disk, epoch, nextId,
                 pred, recovered, mstop, svars, mlock>>

\* Load: each record becomes a fresh Job; Processing is reset to Pending.
LoadJob(r) ==
  LET j == Unmarshal(r)
  IN IF j.status = StatusProcessing THEN [j EXCEPT !.status = StatusPending] ELSE j

\* Manager.Load: the jobs map built from the file d, as id -> Job value.
Load(d) == [i \in Ids |-> IF d[i] # NoRec THEN LoadJob(d[i]) ELSE NoJob]

StoredIds == {i \in Ids : disk[i] # NoRec}
Rank(i) == Cardinality({k \in StoredIds : k <= i})

\* What a crash and restart do to the scanner: main builds a new Scanner from
\* the boot configuration, NewProcessedDB loads the processed file; every
\* goroutine and the in-memory marks are gone.
ScannerCrash ==
  /\ scfg' = BootConfig
  /\ sstop' = "open"
  /\ sphase' = "idle"
  /\ supd' = NoUpdate
  /\ stasks' = {}
  /\ sdelayed' = [f \in Files |-> "none"]
  /\ sevents' = {}
  /\ fstate' = [f \in Files |-> IF fstate[f] = "rewritten" THEN "young" ELSE fstate[f]]
  /\ processed' = pstored
  /\ deferred' = {}
  /\ UNCHANGED <<pstored, marked, source, mcall, schecked, stpos>>

\* The process dies at an arbitrary point and is started again: NewManager
\* builds an empty manager and calls Load on the jobs file.
Restart ==
  /\ epoch < MaxRestarts
  /\ epoch' = epoch + 1
  /\ job' = [o \in Objs |->
               IF \E i \in StoredIds : Rank(i) = o
               THEN LoadJob(disk[CHOOSE i \in StoredIds : Rank(i) = o])
               ELSE NoJob]
  /\ nobj' = Cardinality(StoredIds)
  /\ jobs' = [i \in Ids |-> IF i \in StoredIds THEN Rank(i) ELSE 0]
  /\ queue' = <<>>
  /\ adding' = {}
  /\ wjob' = [w \in Workers |-> 0]
  /\ wphase' = [w \in Workers |-> "idle"]
  /\ requeued' = FALSE
  /\ pred' = [o \in Objs |-> {}]
  /\ recovered' = [processing |-> {i \in StoredIds : disk[i].status = StatusProcessing},
                   pending |-> {i \in StoredIds : disk[i].status = StatusPending},
                   loaded |-> Cardinality(StoredIds)]
  /\ mstop' = "running"
  /\ ScannerCrash
  /\ UNCHANGED <<disk, nextId, mlock>>

\* Some call of Save is under way: the one of an AddJob that has not returned,
\* or the one at the end of a running processJob.
SaveInProgress ==
  \/ nextId <= MaxJobs /\ nobj < MaxJobs
  \/ \E w \in Workers : wjob[w] # 0

\* The process dies inside the os.WriteFile of a Save: the file has been
\* truncated and is not yet rewritten, json.Unmarshal fails on it, Load
\* returns the error and NewManager goes on with an empty map.
RestartTornWrite ==
  /\ epoch < MaxRestarts
  /\ SaveInProgress
  /\ epoch' = epoch + 1
  /\ disk' = [i \in Ids |-> NoRec]
  /\ job' = [o \in Objs |-> NoJob]
  /\ nobj' = 0
  /\ jobs' = [i \in Ids |-> 0]
  /\ queue' = <<>>
  /\ adding' = {}
  /\ wjob' = [w \in Workers |-> 0]
  /\ wphase' = [w \in Workers |-> "idle"]
  /\ requeued' = FALSE
  /\ pred' = [o \in Objs |-> {}]
  /\ recovered' = NoRecovery
  /\ mstop' = "running"
  /\ ScannerCrash
  /\ UNCHANGED <<nextId, mlock>>

\* ---- scanner: ingestion ---------------------------------------------------
\* ScannerConfig.DefaultPriority as set by LoadScannerConfig.
DefaultPriority == 5

\* Scanner.shouldProcessFile for a file that passed the pattern filter:
\* not yet processed, os.Stat succeeds, old enough for the watch directory.
ShouldProcessFile(p, minAge) ==
  /\ p \notin processed
  /\ fstate[p] # "absent"
  /\ minAge > 0 => fstate[p] = "old"

\* Scanner.createJobForFile: jobManager.AddJob (map write, Save, queue push)
\* and then processedDB.MarkProcessed, which only writes the in-memory map.
CreateJobForFile(p) ==
  /\ nobj < MaxJobs
  /\ nextId <= MaxJobs
  /\ LET o == nobj + 1
         h == [job EXCEPT ![o] = NewJob(nextId, JobTypeOptimize, FALSE, DefaultPriority)]
         m == [jobs EXCEPT ![nextId] = o]
     IN /\ job' = h
        /\ jobs' = m
        /\ disk' = Save(m, h)
        /\ nobj' = o
        /\ queue' = Enqueue(queue, o)
        /\ pred' = [pred EXCEPT ![o] = Returned]
  /\ nextId' = nextId + 1
  /\ source' = [source EXCEPT ![nextId] = p]
  /\ processed' = processed \cup {p}
  /\ marked' = marked \cup {p}
  /\ UNCHANGED <<adding, wjob, wphase, requeued, epoch, recovered, mstop, mlock>>

\* One iteration of the loop of ScanAll that finds a file to process.
ScanFile(p) ==
  /\ ShouldProcessFile(p, scfg.minAge)
  /\ CreateJobForFile(p)
  /\ UNCHANGED <<scfg, sstop, sphase, supd, stasks, sdelayed, sevents, fstate,
                 pstored, deferred, mcall, schecked, stpos>>

\* ScanAll started by POST /scanner/scan in a goroutine of its own.
ManualScanFile(p) == ScanFile(p)

\* ScanAll run by the periodicScan goroutine on a tick.
PeriodicScanFile(p) ==
  /\ "periodic" \in stasks
  /\ ScanFile(p)

\* ---- scanner: files of the watch directory --------------------------------
\* A media file appears; fsnotify queues a Create event while watchers are set up.
FileCreated(p) ==
  /\ fstate[p] = "absent"
  /\ fstate' = [fstate EXCEPT ![p] = "young"]
  /\ sevents' = IF "watch" \in stasks /\ sstop = "open" THEN sevents \cup {p} ELSE sevents
  /\ UNCHANGED <<mlock, mvars, scfg, sstop, sphase, supd, stasks, sdelayed, processed,
                 pstored, marked, source, deferred, mcall, schecked, stpos>>

\* The writer of the file writes to it again: the modification time moves.
FileWritten(p) ==
  /\ fstate[p] \in {"young", "old"}
  /\ fstate' = [fstate EXCEPT ![p] =
                  IF sdelayed[p] \in {"waiting", "stopping"} THEN "rewritten" ELSE "young"]
  /\ UNCHANGED <<mlock, mvars, scfg, sstop, sphase, supd, stasks, sdelayed, sevents,
                 processed, pstored, marked, source, deferred, mcall, schecked, stpos>>

\* Time passes: the file becomes older than the minimum age. A file written
\* after its delayed task was spawned is still too new when that timer fires.
FileAges(p) ==
  /\ \/ fstate[p] = "young"
     \/ fstate[p] = "rewritten" /\ sdelayed[p] \notin {"waiting", "stopping"}
  /\ fstate' = [fstate EXCEPT ![p] = "old"]
  /\ UNCHANGED <<mlock, mvars, scfg, sstop, sphase, supd, stasks, sdelayed, sevents,
                 processed, pstored, marked, source, deferred, mcall, schecked, stpos>>

\* ---- scanner: watch mode --------------------------------------------------
\* watchFiles receives a Create event and calls handleNewFile: with a minimum
\* age it spawns delayedProcess (go, not counted by wg), else it processes now.
WatchHandleNewFile(p) ==
  /\ "watch" \in stasks
  /\ p \in sevents
  /\ sevents' = sevents \ {p}
  /\ IF scfg.minAge > 0
     THEN /\ sdelayed' = [sdelayed EXCEPT ![p] = "waiting"]
          /\ deferred' = deferred \cup {p}
          /\ UNCHANGED <<mlock, mvars, processed, marked, source>>
     ELSE /\ IF ShouldProcessFile(p, 0)
             THEN CreateJobForFile(p)
             ELSE UNCHANGED <<mlock, mvars, processed, marked, source>>
          /\ UNCHANGED <<sdelayed, deferred>>
  /\ UNCHANGED <<scfg, sstop, sphase, supd, stasks, fstate, pstored, mcall, schecked, stpos>>

\* delayedProcess: the select takes the time.After case. Since the timer was
\* started, a file not written again has reached the minimum age.
DelayElapsed(p) ==
  /\ sdelayed[p] \in {"waiting", "stopping"}
  /\ sdelayed' = [sdelayed EXCEPT ![p] = "fired"]
  /\ fstate' = [fstate EXCEPT ![p] = IF @ = "young" THEN "old" ELSE @]
  /\ UNCHANGED <<mlock, mvars, scfg, sstop, sphase, supd, stasks, sevents, processed,
                 pstored, marked, source, deferred, mcall, schecked, stpos>>

\* delayedProcess: the select takes the stopCh case and the task returns.
DelayedCancelled(p) ==
  /\ sdelayed[p] = "stopping"
  /\ sdelayed' = [sdelayed EXCEPT ![p] = "none"]
  /\ UNCHANGED <<mlock, mvars, scfg, sstop, sphase, supd, stasks, sevents, fstate,
                 processed, pstored, marked, source, deferred, mcall, schecked, stpos>>

\* delayedProcess after the timer: one more shouldProcessFile with the watch
\* directory it was given, createJobForFile if it passes, and return.
DelayedRun(p) ==
  /\ sdelayed[p] = "fired"
  /\ sdelayed' = [sdelayed EXCEPT ![p] = "none"]
  /\ IF ShouldProcessFile(p, 1)
     THEN CreateJobForFile(p)
     ELSE UNCHANGED <<mlock, mvars, processed, marked, source>>
  /\ UNCHANGED <<scfg, sstop, sphase, supd, stasks, sevents, fstate, pstored,
                 deferred, mcall, schecked, stpos>>

\* ---- scanner: Stop and UpdateConfig ---------------------------------------
\* Stop up to wg.Wait: close(stopCh), stopCh = nil, cancel, watcher.Close.
\* Delayed tasks waiting in their select now see stopCh closed.
SignalStop ==
  /\ sstop' = "nil"
  /\ sevents' = {}
  /\ sdelayed' = [f \in Files |-> IF sdelayed[f] = "waiting" THEN "stopping" ELSE sdelayed[f]]
  /\ deferred' = {}

StopSignal ==
  /\ sphase = "idle"
  /\ sstop = "open"
  /\ sphase' = "stopping"
  /\ SignalStop
  /\ UNCHANGED <<mlock, mvars, scfg, supd, stasks, fstate, processed, pstored, marked,
                 source, mcall, schecked, stpos>>

\* watchFiles or periodicScan sees stopCh closed and returns (wg.Done).
TaskExit(t) ==
  /\ t \in stasks
  /\ stpos[t] = "select"
  /\ sstop = "nil"
  /\ stasks' = stasks \ {t}
  /\ UNCHANGED <<mlock, mvars, scfg, sstop, sphase, supd, sdelayed, sevents, fstate,
                 processed, pstored, marked, source, deferred, mcall, schecked, stpos>>

\* Stop after wg.Wait: processedDB.Save, return.
StopReturn ==
  /\ sphase = "stopping"
  /\ stasks = {}
  /\ pstored' = processed
  /\ sphase' = "idle"
  /\ UNCHANGED <<mlock, mvars, scfg, sstop, supd, stasks, sdelayed, sevents, fstate,
                 processed, marked, source, deferred, mcall, schecked, stpos>>

\* Stop has returned and the scanner has not been started again.
StopReturned == sstop = "nil" /\ sphase = "idle"

\* The goroutines Start launches for a mode.
TasksOf(mode) ==
  IF mode = ScanModePeriodic THEN {"periodic"}
  ELSE IF mode = ScanModeWatch THEN {"watch"}
  ELSE IF mode = ScanModeHybrid THEN {"watch", "periodic"}
  ELSE {}

\* UpdateConfig up to the wg.Wait of its Stop: the new configuration is
\* stored first, then Stop runs (a no-op if the scanner is already stopped).
UpdateConfigBegin(x) ==
  /\ sphase = "idle"
  /\ scfg' = x
  /\ supd' = [active |-> TRUE, newCfg |-> x, wasEnabled |-> scfg.enabled,
              stopRan |-> sstop = "open"]
  /\ sphase' = "updating"
  /\ IF sstop = "open" THEN SignalStop ELSE UNCHANGED <<sstop, sevents, sdelayed, deferred>>
  /\ UNCHANGED <<mlock, mvars, stasks, fstate, processed, pstored, marked, source, mcall, schecked, stpos>>

\* An UpdateConfig that takes the Enabled flag back when the restart fails.
UpdateConfigRestartRollback(ok) ==
  /\ sphase = "updating"
  /\ stasks = {}
  /\ ok \/ supd.newCfg.mode \in {ScanModeWatch, ScanModeHybrid}
  /\ pstored' = IF supd.stopRan THEN processed ELSE pstored
  /\ sstop' = "open"
  /\ scfg' = IF ok THEN scfg ELSE [scfg EXCEPT !.enabled = supd.wasEnabled]
  /\ IF ok /\ scfg.enabled /\ scfg.mode \in {ScanModeStartup, ScanModeHybrid}
     THEN /\ sphase' = "scanning"
          /\ UNCHANGED <<supd, stasks>>
     ELSE /\ sphase' = "idle"
          /\ supd' = NoUpdate
          /\ stasks' = IF ok /\ scfg.enabled THEN TasksOf(scfg.mode) ELSE {}
  /\ UNCHANGED <<mlock, mvars, sdelayed, sevents, fstate, processed, marked,
                 source, deferred, mcall, schecked, stpos>>

\* UpdateConfig from the end of Stop to Start: the processed store is saved,
\* context and stopCh are renewed, the watcher is created (ok = FALSE: it
\* cannot be created, or setupWatchers fails) and Start launches the tasks
\* of the mode; in startup and hybrid mode Start first runs ScanAll.
UpdateConfigRestart(ok) ==
  /\ sphase = "updating"
  /\ stasks = {}
  /\ ok \/ supd.newCfg.mode \in {ScanModeWatch, ScanModeHybrid}
  /\ pstored' = IF supd.stopRan THEN processed ELSE pstored
  /\ sstop' = "open"
  /\ IF ok /\ scfg.enabled /\ scfg.mode \in {ScanModeStartup, ScanModeHybrid}
     THEN /\ sphase' = "scanning"
          /\ UNCHANGED <<supd, stasks>>
     ELSE /\ sphase' = "idle"
          /\ supd' = NoUpdate
          /\ stasks' = IF ok /\ scfg.enabled THEN TasksOf(scfg.mode) ELSE {}
  /\ UNCHANGED <<mlock, mvars, scfg, sdelayed, sevents, fstate, processed, marked,
                 source, deferred, mcall, schecked, stpos>>

\* An iteration of the ScanAll that Start runs in startup and hybrid mode.
StartScanFile(p) ==
  /\ sphase = "scanning"
  /\ ScanFile(p)

\* Start returns to UpdateConfig after its ScanAll (ok = FALSE: setupWatchers
\* fails in hybrid mode), and UpdateConfig returns.
StartReturn(ok) ==
  /\ sphase = "scanning"
  /\ ok \/ scfg.mode = ScanModeHybrid
  /\ sphase' = "idle"
  /\ supd' = NoUpdate
  /\ stasks' = IF ok THEN TasksOf(scfg.mode) ELSE {}
  /\ UNCHANGED <<mlock, mvars, scfg, sstop, sdelayed, sevents, fstate, processed,
                 pstored, marked, source, deferred, mcall, schecked, stpos>>

\* Scanner.GetConfig
GetConfig == scfg

\* ---- scanner: matchesPatterns --------------------------------------------
\* Characters of paths and the globs of the watch directory. "[" is a
\* malformed pattern: filepath.Match reports ErrBadPattern, which
\* matchesPatterns discards, keeping matched = false.
PathChars == {"a", "b", "/"}
Globs == {<<"*">>, <<"a">>, <<"a", "*">>, <<"*", "b">>, <<"[">>}

SeqsUpTo(S, n) == UNION {[1..k -> S] : k \in 0..n}
Paths == SeqsUpTo(PathChars, MaxPathLen) \ {<<>>}
PatternLists == SeqsUpTo(Globs, MaxPatterns)

\* filepath.Base: trailing separators are stripped, the last element is kept.
RECURSIVE StripSlashes(_)
StripSlashes(s) ==
  IF s # <<>> /\ s[Len(s)] = "/" THEN StripSlashes(SubSeq(s, 1, Len(s) - 1)) ELSE s

LastSlash(s) ==
  LET at == {i \in 1..Len(s) : s[i] = "/"}
  IN IF at = {} THEN 0 ELSE CHOOSE i \in at : \A k \in at : k <= i

Base(path) ==
  IF path = <<>> THEN <<".">>
  ELSE LET t == StripSlashes(path)
       IN IF t = <<>> THEN <<"/">> ELSE SubSeq(t, LastSlash(t) + 1, Len(t))

\* filepath.Match: "*" matches any run of non-separator characters, any
\* other character matches itself.
RECURSIVE Match(_, _)
Match(pattern, name) ==
  IF pattern = <<>> THEN name = <<>>
  ELSE IF Head(pattern) = "*"
  THEN \E k \in 0..Len(name) :
         /\ \A i \in 1..k : name[i] # "/"
         /\ Match(Tail(pattern), SubSeq(name, k + 1, Len(name)))
  ELSE IF Head(pattern) = "[" THEN FALSE
  ELSE /\ name # <<>>
       /\ Head(name) = Head(pattern)
       /\ Match(Tail(pattern), Tail(name))

\* A filter in which an include match is decided before the excludes.
MatchesPatternsIncludeFirst(path, watchDir) ==
  LET filename == Base(path)
  IN IF \E i \in 1..Len(watchDir.include) : Match(watchDir.include[i], filename)
     THEN TRUE
     ELSE IF \E i \in 1..Len(watchDir.exclude) : Match(watchDir.exclude[i], filename)
     THEN FALSE
     ELSE Len(watchDir.include) = 0

\* Scanner.matchesPatterns: excludes first, then the empty include list,
\* then the includes.
MatchesPatterns(path, watchDir) ==
  LET filename == Base(path)
  IN IF \E i \in 1..Len(watchDir.exclude) : Match(watchDir.exclude[i], filename)
     THEN FALSE
     ELSE IF Len(watchDir.include) = 0
     THEN TRUE
     ELSE \E i \in 1..Len(watchDir.include) : Match(watchDir.include[i], filename)

\* One call of matchesPatterns on arbitrary arguments.
MatchesPatternsCall ==
  /\ ~mcall.made
  /\ \E path \in Paths, inc \in PatternLists, exc \in PatternLists :
       mcall' = [made |-> TRUE, path |-> path, include |-> inc, exclude |-> exc,
                 result |-> MatchesPatterns(path, [include |-> inc, exclude |-> exc])]
  /\ UNCHANGED <<mlock, mvars, scfg, sstop, sphase, supd, stasks, sdelayed, sevents,
                 fstate, processed, pstored, marked, source, deferred,
                 schecked, stpos>>

\* ---- specifications -------------------------------------------------------
\* Requests the HTTP layer and the scanner submit.
Requests ==
  {[type |-> JobTypeExtract, disc |-> FALSE, priority |-> 0],
   [type |-> JobTypeOptimize, disc |-> TRUE, priority |-> 0],
   [type |-> JobTypeTest, disc |-> FALSE, priority |-> 0]}

\* Requests that differ in priority only.
PriorityRequests ==
  {[type |-> JobTypeTest, disc |-> FALSE, priority |-> p] : p \in Priorities}

Work ==
  \/ \E w \in Workers : WorkerTake(w)
  \/ \E w \in Workers, p \in ProgressValues : Progress(w, p)
  \/ \E w \in Workers : PipelineReturn(w)
  \/ \E w \in Workers : DiscImageFail(w)
  \/ \E w \in Workers : DiscImageExtracted(w)
  \/ \E w \in Workers : DiscImageOptimizeReturn(w)

\* The whole manager: requests, workers, cancellation, crash and restart.
Next ==
  \/ AddJob(Requests)
  \/ AddJobPush
  \/ Work
  \/ \E id \in Ids : CancelJob(id)
  \/ RequeuePendingJobs
  \/ Restart

Spec == Init /\ [][Next]_vars

\* AddJob called again with an id the map already holds (a second Job value).
AddJobSameId(requests) ==
  \E id \in Ids, r \in requests :
    /\ jobs[id] # 0
    /\ AddJobStore(id, r.type, r.disc, r.priority)
    /\ UNCHANGED <<mstop, svars, mlock>>

\* One process, callers that may reuse an id.
NextDup ==
  \/ AddJob(Requests)
  \/ AddJobSameId(Requests)
  \/ AddJobPush
  \/ Work
  \/ \E id \in Ids : CancelJob(id)

SpecDup == Init /\ [][NextDup]_vars

\* Dispatch order: requests of different priority, workers, restart.
NextFifo ==
  \/ AddJob(PriorityRequests)
  \/ AddJobPush
  \/ \E w \in Workers : WorkerTake(w)
  \/ \E w \in Workers : PipelineReturn(w)
  \/ RequeuePendingJobs
  \/ Restart

SpecFifo == Init /\ [][NextFifo]_vars

\* One process run of the store: requests of every kind and the workers.
NextStore ==
  \/ AddJob(Requests)
  \/ AddJobPush
  \/ Work

SpecStore == Init /\ [][NextStore]_vars

\* Crash recovery: as NextFifo, and the process may also die inside a Save.
NextCrash ==
  \/ NextFifo
  \/ RestartTornWrite

SpecCrash == Init /\ [][NextCrash]_vars

\* The pattern filter alone.
NextMatch == MatchesPatternsCall

SpecMatch == Init /\ [][NextMatch]_vars

\* Manual scans of a disabled scanner, graceful stop, crash and restart.
NextScan ==
  \/ \E p \in Files : FileCreated(p)
  \/ \E p \in Files : ManualScanFile(p)
  \/ StopSignal
  \/ StopReturn
  \/ Restart

SpecScan == Init /\ [][NextScan]_vars

\* The configuration of real-time mode with a minimum file age.
WatchConfigs == {[mode |-> ScanModeWatch, enabled |-> TRUE, minAge |-> 1]}

\* Real-time mode: the scanner is switched to watch mode, files appear and
\* are written, the watcher and the delayed tasks run, the scanner is stopped.
NextWatch ==
  \/ \E x \in WatchConfigs : UpdateConfigBegin(x)
  \/ \E ok \in BOOLEAN : UpdateConfigRestart(ok)
  \/ \E p \in Files : FileCreated(p)
  \/ \E p \in Files : FileWritten(p)
  \/ \E p \in Files : FileAges(p)
  \/ \E p \in Files : WatchHandleNewFile(p)
  \/ \E p \in Files : DelayElapsed(p)
  \/ \E p \in Files : DelayedCancelled(p)
  \/ \E p \in Files : DelayedRun(p)
  \/ StopSignal
  \/ \E t \in {"watch", "periodic"} : TaskExit(t)
  \/ StopReturn

SpecWatch == Init /\ [][NextWatch]_vars

\* Reconfiguration: any configuration may be submitted at any time; the
\* startup and periodic scans run, the scanner is stopped.
NextConfig ==
  \/ \E x \in ScannerConfigs : UpdateConfigBegin(x)
  \/ \E ok \in BOOLEAN : UpdateConfigRestart(ok)
  \/ \E p \in Files : StartScanFile(p)
  \/ \E ok \in BOOLEAN : StartReturn(ok)
  \/ \E p \in Files : FileCreated(p)
  \/ \E p \in Files : PeriodicScanFile(p)
  \/ StopSignal
  \/ \E t \in {"watch", "periodic"} : TaskExit(t)
  \/ StopReturn

SpecConfig == Init /\ [][NextConfig]_vars

\* Shutdown: jobs are submitted and run while main stops the manager.
NextStop ==
  \/ AddJob(PriorityRequests)
  \/ AddJobPush
  \/ \E w \in Workers : WorkerTake(w)
  \/ \E w \in Workers : PipelineReturn(w)
  \/ ManagerStopSignal
  \/ \E w \in Workers : WorkerExit(w)
  \/ ManagerStopReturn

SpecStop == Init /\ [][NextStop]_vars

\* ---- claims ---------------------------------------------------------------
InMap == {o \in Objs : \E i \in Ids : jobs[i] = o}
Held(o) == \E w \in Workers : wjob[w] = o
\* A worker has dequeued the object in this process (processJob set cancel).
Dispatched(o) == job[o].cancel

\* C1: every Completed job of the store has progress 100 and an empty error,
\* and every Failed job has a non-empty error.
C1_TerminalFields ==
  \A o \in InMap :
    /\ job[o].status = StatusCompleted => job[o].progress = 100 /\ job[o].error = ""
    /\ job[o].status = StatusFailed => job[o].error # ""

\* C2: a job cancelled while a worker processes it is still Cancelled, with
\* completedAt set, when that worker's processJob ends.
C2_CancelledStays ==
  [][\A w \in Workers :
       (/\ epoch' = epoch
        /\ wjob[w] # 0
        /\ job[wjob[w]].status = StatusCancelled
        /\ wjob'[w] = 0)
       => /\ job'[wjob[w]].status = StatusCancelled
          /\ job'[wjob[w]].completedAt]_vars

\* C3: CancelJob(id) returns false when no job has the id or when the job is
\* already Completed, Failed or Cancelled.
C3_CancelTerminalReturnsFalse ==
  \A id \in Ids :
    (jobs[id] = 0 \/ job[jobs[id]].status \in Terminal) => ~CancelJobReturns(id)

\* C4: at a restart every job stored as Processing is Pending after Load, and
\* when RequeuePendingJobs has run every Pending job of the map is in the
\* queue exactly once.
C4_RestartRequeue ==
  [][/\ epoch' # epoch =>
          \A i \in Ids :
            (disk[i] # NoRec /\ disk[i].status = StatusProcessing)
            => jobs'[i] # 0 /\ job'[jobs'[i]].status = StatusPending
     /\ (epoch > 0 /\ ~requeued /\ requeued') =>
          \A o \in Objs :
            ((\E i \in Ids : jobs'[i] = o) /\ job'[o].status = StatusPending)
            => Count(queue', o) = 1]_vars

StatusRank(st) ==
  CASE st = StatusPending -> 0
    [] st = StatusProcessing -> 1
    [] OTHER -> 2

\* C5: within a process no job leaves a terminal status and no job moves
\* back from Processing to Pending.
C5_StatusMonotone ==
  [][epoch' = epoch =>
       \A o \in Objs :
         o <= nobj =>
           /\ StatusRank(job'[o].status) >= StatusRank(job[o].status)
           /\ job[o].status \in Terminal => job'[o].status = job[o].status]_vars

\* C6: every job handle waiting in the queue has status Pending.
C6_QueuedArePending ==
  \A k \in 1..Len(queue) : job[queue[k]].status = StatusPending

\* C7: no job is inside processJob on two workers at the same time.
C7_OneWorkerPerJob ==
  \A w1, w2 \in Workers : (w1 # w2 /\ wjob[w1] # 0) => wjob[w1] # wjob[w2]

\* C8: after AddJob was called twice with the same id, the map holds a single
\* job for the id and at most one job with that id is ever dispatched.
C8_SameIdDispatchedOnce ==
  \A o1, o2 \in Objs :
    (o1 # o2 /\ o1 <= nobj /\ o2 <= nobj /\ job[o1].id = job[o2].id)
    => ~(Dispatched(o1) /\ Dispatched(o2))

C10_RecoveryOrder ==
  \A a \in Ids :
    (/\ epoch > 0
     /\ recovered.processing = {a}
     /\ recovered.pending # {}
     /\ \A b \in recovered.pending : a < b)
    => ((\E b \in recovered.pending : Dispatched(jobs[b])) => Dispatched(jobs[a]))

C12_StatusDurable ==
  \A i \in Ids :
    jobs[i] # 0 => /\ disk[i] # NoRec
                   /\ disk[i].status = job[jobs[i]].status

\* ---- C13 ------------------------------------------------------------------
\* A Job without its ephemeral fields (cancellation scope, subprocess handle)
\* and without the count of hook calls made with it.
PersistedFields(j) ==
  [j EXCEPT !.cancel = FALSE, !.ctxDone = FALSE, !.hooked = 0]

\* What Load is meant to return for a job: Processing is read back as Pending.
Demoted(j) ==
  IF j.status = StatusProcessing THEN [j EXCEPT !.status = StatusPending] ELSE j

C14_ResumedAfterCrash ==
  [][epoch' # epoch =>
       \A i \in Ids :
         (/\ jobs[i] # 0
          /\ job[jobs[i]].status \in {StatusPending, StatusProcessing}
          /\ ~job[jobs[i]].completedAt)
         => /\ jobs'[i] # 0
            /\ job'[jobs'[i]].status = StatusPending]_vars

C15_ProcessedOnce ==
  [][\A p \in marked : \A i \in Ids : source'[i] = p => source[i] = p]_vars

\* ---- C17 ------------------------------------------------------------------
\* C17: in watch mode a file that is too young is deferred, not dropped: while
\* the scanner is not shut down, a file handleNewFile deferred that has
\* reached the minimum age either has got its job or still has its delayed
\* task, which will give it one.
C17_DeferredNotDropped ==
  \A p \in deferred :
    fstate[p] = "old" => (p \in processed \/ sdelayed[p] # "none")

\* ---- C18 ------------------------------------------------------------------
\* C18: Stop waits for every background task before it saves the processed
\* store and returns: once Stop has returned no scanner task is left, and no
\* step of a scanner task calls AddJob or MarkProcessed.
C18_QuietAfterStop ==
  [][StopReturned => /\ stasks = {}
                     /\ nobj' = nobj
                     /\ processed' = processed]_vars

\* ---- C19 ------------------------------------------------------------------
\* C19: when UpdateConfig(x) returns, GetConfig() returns x, whatever the
\* previous configuration and mode were and whether or not the restart inside
\* UpdateConfig succeeded.
C19_ConfigRoundTrip ==
  [][(supd.active /\ ~supd'.active) => GetConfig' = supd.newCfg]_vars

\* UpdateConfig has returned with an enabled watch configuration stored but
\* no watcher task running: its restart failed.
C19_Witness ==
  /\ ~supd.active
  /\ sphase = "idle"
  /\ sstop = "open"
  /\ GetConfig.enabled
  /\ GetConfig.mode = ScanModeWatch
  /\ stasks = {}

\* ---- C20 ------------------------------------------------------------------
\* C20: shutdown cancels all scopes: once the manager is being stopped, the
\* cancellation scope of every job inside processJob is cancelled, so that
\* Stop does not wait for a pipeline to run to completion.
C20_StopCancelsScopes ==
  mstop # "running" =>
    \A w \in Workers : wjob[w] # 0 => job[wjob[w]].ctxDone

\* ---- C21 ------------------------------------------------------------------
\* C21: in the optimize-from-disc-image pipeline, a failure at any step (a
\* step before the transcode, or the transcode itself, after which the source
\* path is not restored) ends the job as Failed with the error of that step.
C21_DiscImageFailureFails ==
  [][\A w \in Workers :
       (/\ epoch' = epoch
        /\ wphase[w] \in {"extract", "optimize"}
        /\ wphase'[w] = "idle"
        /\ wphase[w] = "extract" \/ ~job'[wjob[w]].disc)
       => /\ job'[wjob[w]].status = StatusFailed
          /\ job'[wjob[w]].error # ""]_vars

\* ---- the tail of processJob, statement by statement -----------------------
\* The pipeline returns and lines 308-320 run: status, error, completedAt.
ProcessJobRecord(w) ==
  /\ wphase[w] = "run"
  /\ \E err \in {"", ErrPipeline, ErrCanceled} :
       /\ err = ErrCanceled => job[wjob[w]].ctxDone
       /\ err = ErrPipeline => job[wjob[w]].type # JobTypeTest
       /\ job' = [job EXCEPT ![wjob[w]] = ProcessJobEnd(@, err)]
  /\ wphase' = [wphase EXCEPT ![w] = "save"]
  /\ UNCHANGED <<nobj, jobs, queue, adding, wjob, disk, requeued, epoch,
                 nextId, pred, recovered, mstop, svars, mlock>>

\* A processJob that goes on to the hook without persisting.
ProcessJobSaveSkipped(w) ==
  /\ wphase[w] = "save"
  /\ wphase' = [wphase EXCEPT ![w] = "hook"]
  /\ UNCHANGED <<job, nobj, jobs, queue, adding, wjob, disk, requeued, epoch,
                 nextId, pred, recovered, mstop, svars, mlock>>

\* Line 323: m.Save().
ProcessJobSave(w) ==
  /\ wphase[w] = "save"
  /\ disk' = Save(jobs, job)
  /\ wphase' = [wphase EXCEPT ![w] = "hook"]
  /\ UNCHANGED <<job, nobj, jobs, queue, adding, wjob, requeued, epoch,
                 nextId, pred, recovered, mstop, svars, mlock>>

\* Lines 325-327: m.OnJobComplete(job); processJob returns to the worker loop.
OnJobComplete(w) ==
  /\ wphase[w] = "hook"
  /\ job' = [job EXCEPT ![wjob[w]] = OnJobCompleteCall(@)]
  /\ wjob' = [wjob EXCEPT ![w] = 0]
  /\ wphase' = [wphase EXCEPT ![w] = "idle"]
  /\ UNCHANGED <<nobj, jobs, queue, adding, disk, requeued, epoch, nextId,
                 pred, recovered, mstop, svars, mlock>>

\* Requests for a pipeline that is a single call and can fail.
PlainRequests == {r \in Requests : r.type = JobTypeExtract}

\* One process run with the tail of processJob interleaved with AddJob.
NextHook ==
  \/ AddJob(PlainRequests)
  \/ AddJobPush
  \/ \E w \in Workers : WorkerTake(w)
  \/ \E w \in Workers : ProcessJobRecord(w)
  \/ \E w \in Workers : ProcessJobSave(w)
  \/ \E w \in Workers : OnJobComplete(w)

SpecHook == Init /\ [][NextHook]_vars

MaxTargetLen == 5
TargetChars == {"a", "/", "."}
Targets == SeqsUpTo(TargetChars, MaxTargetLen)

\* The allowed bases a caller passes: media directories, possibly unset ("").
AllowedBases == {<<>>, <<"/", "a">>, <<"/", "a", "/", "a">>}
BaseLists == {<<b>> : b \in AllowedBases} \cup (AllowedBases \X AllowedBases)

\* strings.HasPrefix
HasPrefix(s, prefix) ==
  Len(prefix) <= Len(s) /\ SubSeq(s, 1, Len(prefix)) = prefix

\* The elements of a path between its separators, empty ones included.
RECURSIVE SplitPath(_, _)
SplitPath(s, cur) ==
  IF s = <<>> THEN <<cur>>
  ELSE IF Head(s) = "/" THEN <<cur>> \o SplitPath(Tail(s), <<>>)
  ELSE SplitPath(Tail(s), Append(cur, Head(s)))

\* filepath.Clean on the elements: "" and "." are dropped, ".." removes the
\* element before it, is dropped at the root, and is kept in a relative path.
RECURSIVE CleanElems(_, _, _)
CleanElems(elems, out, rooted) ==
  IF elems = <<>> THEN out
  ELSE LET e == Head(elems)
           rest == Tail(elems)
       IN IF e = <<>> \/ e = <<".">> THEN CleanElems(rest, out, rooted)
          ELSE IF e = <<".", ".">>
          THEN IF out # <<>> /\ out[Len(out)] # <<".", ".">>
               THEN CleanElems(rest, SubSeq(out, 1, Len(out) - 1), rooted)
               ELSE IF rooted THEN CleanElems(rest, out, rooted)
               ELSE CleanElems(rest, Append(out, e), rooted)
          ELSE CleanElems(rest, Append(out, e), rooted)

RECURSIVE JoinElems(_)
JoinElems(elems) ==
  IF elems = <<>> THEN <<>>
  ELSE IF Len(elems) = 1 THEN elems[1]
  ELSE elems[1] \o <<"/">> \o JoinElems(Tail(elems))

\* filepath.IsAbs
IsAbs(s) == s # <<>> /\ s[1] = "/"

\* filepath.Clean
Clean(s) ==
  LET body == JoinElems(CleanElems(SplitPath(s, <<>>), <<>>, IsAbs(s)))
  IN IF IsAbs(s) THEN <<"/">> \o body
     ELSE IF body = <<>> THEN <<".">> ELSE body

\* filepath.Join of two non-empty elements.
Join(a, b) == Clean(a \o <<"/">> \o b)

\* filepath.Abs of an absolute path.
Abs(s) == Clean(s)

Denied == [ok |-> FALSE, target |-> <<>>]

\* ValidatePath: the loop over allowedBases from index i on.
RECURSIVE ValidatePathFrom(_, _, _)
ValidatePathFrom(cleanPath, bases, i) ==
  IF i > Len(bases) THEN Denied
  ELSE IF bases[i] = <<>> THEN ValidatePathFrom(cleanPath, bases, i + 1)
  ELSE LET absBase == Abs(bases[i])
           absTarget == IF IsAbs(cleanPath) THEN cleanPath
                        ELSE Join(absBase, cleanPath)
       IN IF HasPrefix(absTarget, absBase)
          THEN [ok |-> TRUE, target |-> absTarget]
          ELSE ValidatePathFrom(cleanPath, bases, i + 1)

ValidatePath(path, bases) ==
  IF path = <<>> THEN Denied ELSE ValidatePathFrom(Clean(path), bases, 1)

\* One call of ValidatePath with a path and a list of allowed bases.
ValidatePathCall ==
  /\ ~mcall.made
  /\ \E path \in Targets, bases \in BaseLists :
       mcall' = [made |-> TRUE, path |-> path, bases |-> bases,
                 out |-> ValidatePath(path, bases)]
  /\ UNCHANGED <<mlock, mvars, scfg, sstop, sphase, supd, stasks, sdelayed, sevents,
                 fstate, processed, pstored, marked, source, deferred,
                 schecked, stpos>>

NextPath == ValidatePathCall

SpecPath == Init /\ [][NextPath]_vars

\* ---- C23 ------------------------------------------------------------------
\* The elements of a normalized absolute path.
Elems(s) == CleanElems(SplitPath(s, <<>>), <<>>, TRUE)
\* p is r itself or a descendant of r.
Within(p, r) ==
  Len(Elems(r)) <= Len(Elems(p)) /\ SubSeq(Elems(p), 1, Len(Elems(r))) = Elems(r)
\* The roots that are set, in the order given.
Roots(bases) == SelectSeq(bases, LAMBDA b : b # <<>>)
\* P resolved: as it is when absolute, under the first root when relative.
Resolved(path, bases) ==
  IF IsAbs(path) THEN Clean(path) ELSE Join(Roots(bases)[1], path)

\* C23: ValidatePath rejects the empty path, and otherwise returns the
\* resolved absolute path iff the normalized path is one of the roots or a
\* descendant of one (a relative path being taken under the first root); a
\* path that escapes with ../ and an absolute path outside every root fail.
C23_AcceptsOnlyWithinRoots ==
  (mcall.made /\ Roots(mcall.bases) # <<>>) =>
    LET roots == Roots(mcall.bases)
        inside == /\ mcall.path # <<>>
                  /\ \E i \in 1..Len(roots) :
                       Within(Resolved(mcall.path, roots), roots[i])
    IN /\ mcall.out.ok <=> inside
       /\ mcall.out.ok => mcall.out.target = Resolved(mcall.path, roots)

\* ---- ffmpeg progress: parseProgress, CalculatePercentage, EstimateETA -----
MaxLines == 3

\* A field no line has set yet (the zero value of TranscodeProgress).
Unset == <<>>
\* time= values, as the numbers between the colons: HH:MM:SS, and a bare 30.
TimeValues == {<<0, 0, 0>>, <<0, 0, 2>>, <<0, 15, 0>>, <<0, 30, 0>>,
               <<1, 0, 0>>, <<30>>}
\* speed= values in tenths: 0.5x, 1.0x, 2.0x.
SpeedValues == {<<5>>, <<10>>, <<20>>}
\* Total durations in seconds; 0 when the probe gave none.
Durations == {0, 3, 3600}
\* Lines of the -progress stream, each setting one key.
ProgressLines ==
  {[key |-> "frame", val |-> n] : n \in {0, 7}}
    \cup {[key |-> "time", val |-> t] : t \in TimeValues}
    \cup {[key |-> "speed", val |-> s] : s \in SpeedValues}

DigitChars == <<"0", "1", "2", "3", "4", "5", "6", "7", "8", "9">>
RECURSIVE Itoa(_)
Itoa(n) == IF n < 10 THEN <<DigitChars[n + 1]>>
           ELSE Append(Itoa(n \div 10), DigitChars[(n % 10) + 1])
\* %02d
Pad2(n) == IF n < 10 THEN <<"0">> \o Itoa(n) ELSE Itoa(n)
\* fmt.Sprintf("%02d:%02d:%02d", h, m, s)
SprintfHMS(h, m, s) == Pad2(h) \o <<":">> \o Pad2(m) \o <<":">> \o Pad2(s)

\* parseTimeToSeconds: anything but three parts is 0.
ParseTimeToSeconds(t) ==
  IF Len(t) # 3 THEN 0 ELSE t[1] * 3600 + t[2] * 60 + t[3]

\* CalculatePercentage: int() truncates the quotient; only the top is clamped.
CalculatePercentage(currentTime, totalDuration) ==
  LET current == ParseTimeToSeconds(currentTime)
  IN IF totalDuration = 0 THEN 0
     ELSE LET percentage == (current * 100) \div totalDuration
          IN IF percentage > 100 THEN 100 ELSE percentage

\* EstimateETA: the speed is 1.0 when it has no "x" suffix or parses to 0.
EstimateETA(currentTime, totalDuration, speed) ==
  LET current == ParseTimeToSeconds(currentTime)
      remaining == totalDuration - current
      tenths == IF speed = Unset \/ speed[1] = 0 THEN 10 ELSE speed[1]
      etaSeconds == (remaining * 10) \div tenths
      hours == etaSeconds \div 3600
      minutes == (etaSeconds - hours * 3600) \div 60
      seconds == etaSeconds % 60
  IN IF remaining <= 0 THEN SprintfHMS(0, 0, 0)
     ELSE SprintfHMS(hours, minutes, seconds)

\* progress := TranscodeProgress{}
ZeroProgress == [frame |-> 0, time |-> Unset, speed |-> Unset,
                 percentage |-> 0, eta |-> <<>>]

\* One iteration of the scan loop: the metrics of the line, then the derived
\* ones when the total duration is positive and a time has been seen.
ParseLine(progress, line, totalDuration) ==
  LET p == CASE line.key = "frame" -> [progress EXCEPT !.frame = line.val]
             [] line.key = "time" -> [progress EXCEPT !.time = line.val]
             [] line.key = "speed" -> [progress EXCEPT !.speed = line.val]
  IN IF totalDuration > 0 /\ p.time # Unset
     THEN [p EXCEPT !.percentage = CalculatePercentage(p.time, totalDuration),
                    !.eta = EstimateETA(p.time, totalDuration, p.speed)]
     ELSE p

\* parseProgress: the events handed to the callback, in order.
RECURSIVE ParseProgress(_, _, _)
ParseProgress(lines, progress, totalDuration) ==
  IF lines = <<>> THEN <<>>
  ELSE LET p == ParseLine(progress, Head(lines), totalDuration)
           rest == ParseProgress(Tail(lines), p, totalDuration)
       IN IF p.frame > 0 THEN <<p>> \o rest ELSE rest

\* One transcode: the stream ffmpeg writes and the total duration passed in.
ParseProgressCall ==
  /\ ~mcall.made
  /\ \E lines \in SeqsUpTo(ProgressLines, MaxLines), total \in Durations :
       mcall' = [made |-> TRUE, lines |-> lines, total |-> total,
                 events |-> ParseProgress(lines, ZeroProgress, total)]
  /\ UNCHANGED <<mlock, mvars, scfg, sstop, sphase, supd, stasks, sdelayed, sevents,
                 fstate, processed, pstored, marked, source, deferred,
                 schecked, stpos>>

NextProgress == ParseProgressCall

SpecProgress == Init /\ [][NextProgress]_vars

\* ---- C24 ------------------------------------------------------------------
\* round(100 * c / T) for non-negative c and positive T, clamped to [0, 100].
RoundedPercentage(c, T) ==
  LET r == (200 * c + T) \div (2 * T)
  IN IF r > 100 THEN 100 ELSE IF r < 0 THEN 0 ELSE r

\* C24: for a current time c, a total duration T > 0 and a speed s > 0, the
\* reported percentage is clamp(round(100*c/T), 0, 100) and the ETA is
\* (T - c)/s seconds formatted HH:MM:SS, 00:00:00 when c >= T.
C24_PercentageAndEta ==
  mcall.made =>
    \A i \in 1..Len(mcall.events) :
      LET e == mcall.events[i]
          c == ParseTimeToSeconds(e.time)
          T == mcall.total
          eta == ((T - c) * 10) \div e.speed[1]
      IN (T > 0 /\ Len(e.time) = 3 /\ e.speed # Unset) =>
           /\ e.percentage = RoundedPercentage(c, T)
           /\ e.eta = IF c >= T THEN SprintfHMS(0, 0, 0)
                      ELSE SprintfHMS(eta \div 3600, (eta % 3600) \div 60, eta % 60)

\* ---- C25 ------------------------------------------------------------------
\* C25: when the total duration is 0, every progress event handed to the
\* callback has percentage 0 and eta "00:00:00".
C25_ZeroDurationEvents ==
  (mcall.made /\ mcall.total = 0) =>
    \A i \in 1..Len(mcall.events) :
      /\ mcall.events[i].percentage = 0
      /\ mcall.events[i].eta = SprintfHMS(0, 0, 0)

\* ---- makemkv: parseDiscInfo, FindLargestTitle -----------------------------
TitleIndexes == {0, 1}
\* Duration attributes as the numbers between the colons, H:MM:SS.
DurationValues == {<<0, 0, 0>>, <<0, 45, 0>>, <<1, 30, 0>>}
\* TINFO lines of the scan output: attribute 2 (name) and 9 (duration).
InfoLines ==
  {[idx |-> i, attr |-> 2, val |-> <<>>] : i \in TitleIndexes}
    \cup {[idx |-> i, attr |-> 9, val |-> d] : i \in TitleIndexes, d \in DurationValues}

\* parseDurationToSeconds: anything but three parts is 0.
ParseDurationToSeconds(d) ==
  IF Len(d) # 3 THEN 0 ELSE d[1] * 3600 + d[2] * 60 + d[3]

\* titleMap after the loop over the lines: a title for every index some line
\* names, with the duration of the last duration line ("" if there is none).
RECURSIVE TitleMap(_, _)
TitleMap(lines, m) ==
  IF lines = <<>> THEN m
  ELSE LET l == Head(lines)
           old == IF l.idx \in DOMAIN m THEN m[l.idx]
                  ELSE [index |-> l.idx, duration |-> <<>>]
           new == IF l.attr = 9 THEN [old EXCEPT !.duration = l.val] ELSE old
       IN TitleMap(Tail(lines),
                   [i \in DOMAIN m \cup {l.idx} |-> IF i = l.idx THEN new ELSE m[i]])

\* parseDiscInfo: Titles is filled by ranging over titleMap, in the order the
\* map iteration happens to take.
ParseDiscInfo(lines) ==
  LET m == TitleMap(lines, <<>>)
  IN {[k \in 1..Cardinality(DOMAIN m) |-> m[s[k]]] : s \in Orders(DOMAIN m)}

\* FindLargestTitle from title k on: a title replaces the choice only when its
\* duration is greater than the largest seen, which starts at 0.
RECURSIVE FindLargestFrom(_, _, _, _)
FindLargestFrom(titles, k, largestIdx, maxDuration) ==
  IF k > Len(titles) THEN largestIdx
  ELSE LET duration == ParseDurationToSeconds(titles[k].duration)
       IN IF duration > maxDuration
          THEN FindLargestFrom(titles, k + 1, titles[k].index, duration)
          ELSE FindLargestFrom(titles, k + 1, largestIdx, maxDuration)

FindLargestTitle(titles) ==
  IF Len(titles) = 0 THEN 0 ELSE FindLargestFrom(titles, 1, 0, 0)

\* One disc scan: the output is parsed and the largest title is looked up.
FindLargestTitleCall ==
  /\ ~mcall.made
  /\ \E lines \in SeqsUpTo(InfoLines, MaxLines) :
       \E titles \in ParseDiscInfo(lines) :
         mcall' = [made |-> TRUE, lines |-> lines, titles |-> titles,
                   result |-> FindLargestTitle(titles)]
  /\ UNCHANGED <<mlock, mvars, scfg, sstop, sphase, supd, stasks, sdelayed, sevents,
                 fstate, processed, pstored, marked, source, deferred,
                 schecked, stpos>>

NextDisc == FindLargestTitleCall

SpecDisc == Init /\ [][NextDisc]_vars

\* ---- C26 ------------------------------------------------------------------
\* C26: FindLargestTitle returns the index of the title with the greatest
\* duration in seconds, and on ties the smallest such index, for every title
\* list parseDiscInfo can produce.
C26_LargestTitleSmallestIndex ==
  (mcall.made /\ mcall.titles # <<>>) =>
    \E k \in 1..Len(mcall.titles) :
      /\ mcall.titles[k].index = mcall.result
      /\ \A n \in 1..Len(mcall.titles) :
           LET dk == ParseDurationToSeconds(mcall.titles[k].duration)
               dn == ParseDurationToSeconds(mcall.titles[n].duration)
           IN dn < dk \/ (dn = dk /\ mcall.titles[k].index <= mcall.titles[n].index)

\* ---- runOptimization: the CRF handed to the transcoder --------------------
MaxResponseLen == 3
\* Characters of an AI answer.
ResponseChars == {"1", "5", "9", "-", "x", " "}
Responses == SeqsUpTo(ResponseChars, MaxResponseLen)
\* What provider.Analyze returns: an error, or a text.
Answers == {[err |-> TRUE, text |-> <<>>]} \cup {[err |-> FALSE, text |-> t] : t \in Responses}
\* m.config.CRF values.
ConfiguredCRFs == {18, 23}

IsDigit(c) == \E d \in 1..10 : DigitChars[d] = c
DigitValue(c) == (CHOOSE d \in 1..10 : DigitChars[d] = c) - 1

\* strings.TrimSpace
RECURSIVE TrimSpace(_)
TrimSpace(s) ==
  IF s # <<>> /\ Head(s) = " " THEN TrimSpace(Tail(s))
  ELSE IF s # <<>> /\ s[Len(s)] = " " THEN TrimSpace(SubSeq(s, 1, Len(s) - 1))
  ELSE s

\* The value of the digits s starts with, and how many there are.
RECURSIVE ScanDigits(_, _, _)
ScanDigits(s, val, n) ==
  IF s # <<>> /\ IsDigit(Head(s))
  THEN ScanDigits(Tail(s), val * 10 + DigitValue(Head(s)), n + 1)
  ELSE [val |-> val, n |-> n]

\* fmt.Sscanf(s, "%d", &crf): an optional sign, then at least one digit; what
\* follows the digits is not read.
Sscanf(s) ==
  LET neg == s # <<>> /\ Head(s) = "-"
      d == ScanDigits(IF neg THEN Tail(s) ELSE s, 0, 0)
  IN IF d.n = 0 THEN [ok |-> FALSE, val |-> 0]
     ELSE [ok |-> TRUE, val |-> IF neg THEN 0 - d.val ELSE d.val]

\* Cleaner.AnalyzeEncoding without the check of the range.
AnalyzeEncodingAnyValue(answer) ==
  IF answer.err THEN [ok |-> FALSE, crf |-> 23]
  ELSE LET r == Sscanf(TrimSpace(answer.text))
       IN IF ~r.ok THEN [ok |-> FALSE, crf |-> 23]
          ELSE [ok |-> TRUE, crf |-> r.val]

\* Cleaner.AnalyzeEncoding with a provider set: 23 and an error when the
\* provider fails, the answer is no integer, or the integer is outside 10..51.
AnalyzeEncoding(answer) ==
  IF answer.err THEN [ok |-> FALSE, crf |-> 23]
  ELSE LET r == Sscanf(TrimSpace(answer.text))
       IN IF ~r.ok THEN [ok |-> FALSE, crf |-> 23]
          ELSE IF r.val < 10 \/ r.val > 51 THEN [ok |-> FALSE, crf |-> 23]
          ELSE [ok |-> TRUE, crf |-> r.val]

\* runOptimization, step 2: crf := m.config.CRF, replaced by the suggestion
\* when the instance is premium, m.ai is set and AnalyzeEncoding returns no error.
OptimizationCRF(isPremium, ai, configured, answer) ==
  IF isPremium /\ ai
  THEN LET a == AnalyzeEncoding(answer)
       IN IF a.ok THEN a.crf ELSE configured
  ELSE configured

\* What GetMediaInfo returns: an error, or the duration ffprobe reported.
Probes == {[ok |-> FALSE, duration |-> 0], [ok |-> TRUE, duration |-> 3600]}
ErrProbe == "failed to get media info"

\* runOptimization with m.ffmpeg set: the probe, whose failure is returned,
\* then the CRF, then the transcode with the options built from them, whose
\* error is returned.
RunOptimization(probe, isPremium, ai, configured, answer, transcodeErr) ==
  IF ~probe.ok
  THEN [err |-> ErrProbe, transcoded |-> FALSE, crf |-> 0, totalDuration |-> 0]
  ELSE [err |-> transcodeErr, transcoded |-> TRUE,
        crf |-> OptimizationCRF(isPremium, ai, configured, answer),
        totalDuration |-> probe.duration]

\* One runOptimization call.
RunOptimizationCall ==
  /\ ~mcall.made
  /\ \E probe \in Probes, isPremium \in BOOLEAN, ai \in BOOLEAN,
        configured \in ConfiguredCRFs, answer \in Answers,
        transcodeErr \in {"", ErrPipeline} :
       mcall' = [made |-> TRUE, probe |-> probe, isPremium |-> isPremium,
                 ai |-> ai, configured |-> configured, answer |-> answer,
                 out |-> RunOptimization(probe, isPremium, ai, configured,
                                         answer, transcodeErr)]
  /\ UNCHANGED <<mlock, mvars, scfg, sstop, sphase, supd, stasks, sdelayed, sevents,
                 fstate, processed, pstored, marked, source, deferred,
                 schecked, stpos>>

NextCRF == RunOptimizationCall

SpecCRF == Init /\ [][NextCRF]_vars

\* ---- C27 ------------------------------------------------------------------
\* The integers of 10..51 an answer reads as: its decimal digits open the
\* answer, blanks aside, and no further digit follows them.
Recommended(answer) ==
  IF answer.err THEN {}
  ELSE LET t == TrimSpace(answer.text)
       IN {n \in 10..51 :
             /\ HasPrefix(t, Itoa(n))
             /\ Len(t) > Len(Itoa(n)) => ~IsDigit(t[Len(Itoa(n)) + 1])}

\* C27: the quality level passed to the transcoder is the AI's recommendation
\* iff premium is set, an AI provider is configured and its answer parses to
\* an integer within [10, 51]; otherwise it is the configured default.
C27_QualityLevel ==
  (mcall.made /\ mcall.out.transcoded) =>
    LET rec == Recommended(mcall.answer)
    IN IF mcall.isPremium /\ mcall.ai /\ rec # {}
       THEN mcall.out.crf \in rec
       ELSE mcall.out.crf = mcall.configured

\* A premium instance whose provider answers " 51" or the like.
C27_Witness ==
  /\ mcall.made
  /\ mcall.isPremium /\ mcall.ai
  /\ ~mcall.answer.err
  /\ mcall.answer.text # <<>>
  /\ Head(mcall.answer.text) = " "
  /\ mcall.out.transcoded
  /\ mcall.out.crf = 51
  /\ mcall.out.crf # mcall.configured

\* ---- C28 ------------------------------------------------------------------
\* C28: a failure of the media probe is recoverable: when GetMediaInfo fails,
\* the optimize pipeline still runs the transcode, with duration 0, and the
\* job is not failed because of the probe.
C28_ProbeFailureTolerated ==
  (mcall.made /\ ~mcall.probe.ok) =>
    /\ mcall.out.transcoded
    /\ mcall.out.totalDuration = 0
    /\ mcall.out.err # ErrProbe

\* ---- ffmpeg: buildFFmpegArgs ----------------------------------------------
GPUVendorNvidia == "nvidia"
GPUVendorIntel == "intel"
GPUVendorAMD == "amd"
GPUVendorCPU == "cpu"
PresetFast == "fast"
PresetMedium == "medium"
PresetSlow == "slow"

\* The TranscodeOptions runOptimization can build.
TranscodeOptions ==
  [InputPath : {"in.mkv"}, OutputPath : {"out.mkv"},
   GPUVendor : {GPUVendorNvidia, GPUVendorIntel, GPUVendorAMD, GPUVendorCPU},
   Preset : {PresetFast, PresetMedium, PresetSlow},
   CRF : {10, 23, 51},
   AudioCodec : {"", "aac"},
   Upscale : BOOLEAN, Resolution : {"1080p", "4k"}]

\* getHWAccelInputArgs
GetHWAccelInputArgs(vendor) ==
  CASE vendor = GPUVendorNvidia ->
         <<"-hwaccel", "cuda", "-hwaccel_output_format", "cuda">>
    [] vendor \in {GPUVendorIntel, GPUVendorAMD} ->
         <<"-hwaccel", "vaapi", "-hwaccel_device", "/dev/dri/renderD128",
           "-hwaccel_output_format", "vaapi">>
    [] OTHER -> <<>>

\* getUpscaleFilter
GetUpscaleFilter(opts) ==
  LET size == IF opts.Resolution = "4k" THEN "3840:2160" ELSE "1920:1080"
  IN IF ~opts.Upscale THEN ""
     ELSE IF opts.GPUVendor = GPUVendorNvidia THEN "scale_cuda=" \o size
     ELSE "scale=" \o size \o ":flags=lanczos"

\* A preset mapping that knows one NVENC preset only.
MapPresetToNvencDefault(preset) == "p5"

\* mapPresetToNvenc
MapPresetToNvenc(preset) ==
  CASE preset = PresetFast -> "p4"
    [] preset = PresetMedium -> "p5"
    [] preset = PresetSlow -> "p7"
    [] OTHER -> "p5"

\* getVideoEncoderArgs; fmt.Sprintf("%d", opts.CRF) is the decimal numeral.
GetVideoEncoderArgs(opts) ==
  LET filter == GetUpscaleFilter(opts)
      vf == IF filter # "" THEN <<"-vf", filter>> ELSE <<>>
  IN vf \o
     CASE opts.GPUVendor = GPUVendorNvidia ->
            <<"-c:v", "hevc_nvenc", "-preset", MapPresetToNvenc(opts.Preset),
              "-rc", "vbr", "-cq", ToString(opts.CRF), "-b:v", "0",
              "-profile:v", "main10", "-tier", "high">>
       [] opts.GPUVendor \in {GPUVendorIntel, GPUVendorAMD} ->
            <<"-c:v", "hevc_vaapi", "-qp", ToString(opts.CRF), "-vf", "hwupload">>
       [] OTHER ->
            <<"-c:v", "libx265", "-preset", opts.Preset,
              "-crf", ToString(opts.CRF), "-pix_fmt", "yuv420p10le",
              "-x265-params", "profile=main10">>

\* getAudioEncoderArgs
GetAudioEncoderArgs(codec) ==
  CASE codec = "aac" -> <<"-c:a", "aac", "-b:a", "256k">>
    [] codec = "ac3" -> <<"-c:a", "ac3", "-b:a", "640k">>
    [] OTHER -> <<"-c:a", "copy">>

\* buildFFmpegArgs
BuildFFmpegArgs(opts) ==
  <<"-hide_banner", "-loglevel", "info", "-stats">>
    \o GetHWAccelInputArgs(opts.GPUVendor)
    \o <<"-i", opts.InputPath>>
    \o GetVideoEncoderArgs(opts)
    \o GetAudioEncoderArgs(opts.AudioCodec)
    \o <<"-c:s", "copy", "-map", "0", "-y", opts.OutputPath>>

\* One Transcode: the argv built from the options.
BuildFFmpegArgsCall ==
  /\ ~mcall.made
  /\ \E opts \in TranscodeOptions :
       mcall' = [made |-> TRUE, opts |-> opts, args |-> BuildFFmpegArgs(opts)]
  /\ UNCHANGED <<mlock, mvars, scfg, sstop, sphase, supd, stasks, sdelayed, sevents,
                 fstate, processed, pstored, marked, source, deferred,
                 schecked, stpos>>

NextArgs == BuildFFmpegArgsCall

SpecArgs == Init /\ [][NextArgs]_vars

\* ---- C29 ------------------------------------------------------------------
\* The argv has flag k followed by value v before / after the input flag.
FlagBeforeInput(args, k, v) ==
  \E i, n \in 1..Len(args) :
    args[n] = "-i" /\ i + 1 < n /\ args[i] = k /\ args[i + 1] = v
FlagAfterInput(args, k, v) ==
  \E i, n \in 1..Len(args) :
    args[n] = "-i" /\ n < i /\ i < Len(args) /\ args[i] = k /\ args[i + 1] = v

MaxHour == 95
Hours == 0..MaxHour
\* The lengths in hours of the local calendar days, for time.Local without
\* and with a change to summer time on the second day.
Zones == {<<24, 24, 24, 24>>, <<24, 23, 24, 24>>}
\* cfg.AdminPassword / the password given at login.
Passwords == {"", "p", "q"}

\* The hour at which local day d begins.
RECURSIVE DayStart(_, _)
DayStart(zone, d) == IF d <= 1 THEN 0 ELSE DayStart(zone, d - 1) + zone[d - 1]

\* t.Format("2006-01-02"): the local calendar day the instant t falls on
\* (0 for an instant before the first day).
FormatDate(zone, t) ==
  IF t < 0 THEN 0
  ELSE CHOOSE d \in 1..Len(zone) :
         /\ DayStart(zone, d) <= t
         /\ d < Len(zone) => t < DayStart(zone, d + 1)

\* fmt.Sprintf("%x", sha256.Sum256([]byte(password + salt))): the salt has a
\* fixed width and SHA-256 is taken as collision-free.
HashHex(password, salt) == <<password, salt>>

\* GenerateToken at instant now.
GenerateToken(zone, now, password) == HashHex(password, FormatDate(zone, now))

\* validateToken at instant now: the hash for today's date, or for the date
\* of the instant 24 hours earlier.
ValidateToken(zone, now, token, password) ==
  IF password = "" THEN FALSE
  ELSE \/ token = HashHex(password, FormatDate(zone, now))
       \/ token = HashHex(password, FormatDate(zone, now - 24))

\* POST /login: a token is issued.
GenerateTokenCall ==
  /\ ~mcall.made
  /\ \E zone \in Zones, now \in Hours, password \in Passwords :
       mcall' = [made |-> TRUE, checked |-> FALSE, zone |-> zone,
                 password |-> password, issuedAt |-> now,
                 token |-> GenerateToken(zone, now, password)]
  /\ UNCHANGED <<mlock, mvars, scfg, sstop, sphase, supd, stasks, sdelayed, sevents,
                 fstate, processed, pstored, marked, source, deferred,
                 schecked, stpos>>

\* AuthMiddleware: the token comes back at the same or a later instant.
ValidateTokenCall ==
  /\ mcall.made /\ ~mcall.checked
  /\ \E now \in Hours, admin \in Passwords :
       /\ mcall.issuedAt <= now
       /\ mcall' = [made |-> TRUE, checked |-> TRUE, zone |-> mcall.zone,
                    password |-> mcall.password, issuedAt |-> mcall.issuedAt,
                    token |-> mcall.token, at |-> now, admin |-> admin,
                    ok |-> ValidateToken(mcall.zone, now, mcall.token, admin)]
  /\ UNCHANGED <<mlock, mvars, scfg, sstop, sphase, supd, stasks, sdelayed, sevents,
                 fstate, processed, pstored, marked, source, deferred,
                 schecked, stpos>>

NextAuth ==
  \/ GenerateTokenCall
  \/ ValidateTokenCall

SpecAuth == Init /\ [][NextAuth]_vars

\* ---- C30 ------------------------------------------------------------------
\* C30: a token generated for a non-empty password is accepted on the day it
\* was generated and on the following day and rejected on every later day;
\* with an empty password every token is rejected, and a token for a
\* different password is rejected.
C30_TokenLifetime ==
  (mcall.made /\ mcall.checked) =>
    LET issued == FormatDate(mcall.zone, mcall.issuedAt)
        today == FormatDate(mcall.zone, mcall.at)
    IN /\ mcall.admin = "" => ~mcall.ok
       /\ mcall.admin # mcall.password => ~mcall.ok
       /\ (mcall.admin = mcall.password /\ mcall.password # "") =>
            (mcall.ok <=> today \in {issued, issued + 1})

\* ---- a pool smaller than the number of jobs -------------------------------
\* The workers Start launches when maxConcurrent is PoolSize.
PoolSize == 1
PoolWorkers == 1..PoolSize

\* Requests for the built-in test pipeline, which fails only when cancelled.
TestRequests == {r \in Requests : r.type = JobTypeTest}

\* One process run: callers of AddJob, RequeuePendingJobs and CancelJob, and
\* the workers of the pool.
NextPool ==
  \/ AddJob(TestRequests)
  \/ AddJobPush
  \/ RequeuePendingJobs
  \/ \E id \in Ids : CancelJob(id)
  \/ \E w \in PoolWorkers : WorkerTake(w)
  \/ \E w \in PoolWorkers : PipelineReturn(w)

SpecPool == Init /\ [][NextPool]_vars

\* ---- C31 ------------------------------------------------------------------
\* Jobs whose processJob has begun and has not reached its end.
InProcessJob == {o \in Objs : Dispatched(o) /\ ~job[o].completedAt}

\* C31: with N workers started, at no time are more than N jobs inside
\* processJob, under any sequence of AddJob, RequeuePendingJobs and CancelJob.
C31_PoolBounded == Cardinality(InProcessJob) <= PoolSize

\* Every worker is busy while a further job waits in the queue.
C31_Witness ==
  /\ Cardinality(InProcessJob) = PoolSize
  /\ \E k \in 1..Len(queue) : queue[k] \notin InProcessJob

\* ---- the progress parser goroutine ----------------------------------------
\* TranscodeWithProgress / ExtractWithProgress return as soon as cmd.Wait()
\* does; the goroutine started with `go parseProgress(...)` is not waited
\* for. parsing: that goroutine has read a line and not yet returned.
PipelineReturnParsing(w) ==
  /\ wphase[w] = "run"
  /\ job[wjob[w]].type # JobTypeTest
  /\ \E err \in {"", ErrPipeline} :
       Finish(w, [ProcessJobEnd(job[wjob[w]], err) EXCEPT !.parsing = TRUE])

\* The goroutine hands the event of its last line to the callback, which
\* writes job.Progress (and FPS, ETA), and ends at the closed pipe.
ParserCallback(o, p) ==
  /\ job[o].parsing
  /\ job' = [job EXCEPT ![o].progress = p, ![o].parsing = FALSE]
  /\ UNCHANGED <<nobj, jobs, queue, adding, wjob, wphase, disk, requeued,
                 epoch, nextId, pred, recovered, mstop, svars, mlock>>

\* The goroutine finds the pipe closed without a further event.
ParserExit(o) ==
  /\ job[o].parsing
  /\ job' = [job EXCEPT ![o].parsing = FALSE]
  /\ UNCHANGED <<nobj, jobs, queue, adding, wjob, wphase, disk, requeued,
                 epoch, nextId, pred, recovered, mstop, svars, mlock>>

\* One process run with the parser goroutine on its own.
NextParser ==
  \/ AddJob(PlainRequests)
  \/ AddJobPush
  \/ \E w \in Workers : WorkerTake(w)
  \/ \E w \in Workers, p \in ProgressValues : Progress(w, p)
  \/ \E w \in Workers : PipelineReturn(w)
  \/ \E w \in Workers : PipelineReturnParsing(w)
  \/ \E o \in Objs, p \in ProgressValues : ParserCallback(o, p)
  \/ \E o \in Objs : ParserExit(o)

SpecParser == Init /\ [][NextParser]_vars

\* ---- C32 ------------------------------------------------------------------
\* C32: progress events never race with the terminal transition: once the
\* pipeline has returned and processJob has ended, the progress of the job is
\* not overwritten by a late progress event.
C32_NoLateProgress ==
  [][\A o \in Objs :
       (job[o].completedAt /\ ~Held(o) /\ job'[o].completedAt /\ ~Held(o)')
         => job'[o].progress = job[o].progress]_vars

\* ---- scanner: concurrent scans --------------------------------------------
\* The goroutines that can run the check and the creation for a file: the
\* ScanAll of POST /scanner/scan, the ScanAll of periodicScan, and the
\* handleNewFile of watchFiles.
Activities == {"manual", "periodic", "watch"}

\* Hybrid mode without a minimum age.
HybridConfigs == {[mode |-> ScanModeHybrid, enabled |-> TRUE, minAge |-> 0]}

\* An activity reaches a file and shouldProcessFile returns true.
ScanCheck(a, p) ==
  /\ <<a, p>> \notin schecked
  /\ a = "periodic" => "periodic" \in stasks
  /\ a = "watch" => ("watch" \in stasks /\ p \in sevents)
  /\ ShouldProcessFile(p, scfg.minAge)
  /\ schecked' = schecked \cup {<<a, p>>}
  /\ sevents' = IF a = "watch" THEN sevents \ {p} ELSE sevents
  /\ UNCHANGED <<mlock, mvars, scfg, sstop, sphase, supd, stasks, sdelayed, fstate,
                 processed, pstored, marked, source, deferred, mcall, stpos>>

\* The activity goes on to createJobForFile for the file it has checked.
ScanCreate(a, p) ==
  /\ <<a, p>> \in schecked
  /\ CreateJobForFile(p)
  /\ schecked' = schecked \ {<<a, p>>}
  /\ UNCHANGED <<scfg, sstop, sphase, supd, stasks, sdelayed, sevents, fstate,
                 pstored, deferred, mcall, stpos>>

\* Hybrid mode: the scanner is switched on, files appear, and the manual
\* scan, the periodic scan and the watcher run side by side.
NextRace ==
  \/ \E x \in HybridConfigs : UpdateConfigBegin(x)
  \/ \E ok \in BOOLEAN : UpdateConfigRestart(ok)
  \/ \E p \in Files : StartScanFile(p)
  \/ \E ok \in BOOLEAN : StartReturn(ok)
  \/ \E p \in Files : FileCreated(p)
  \/ \E a \in Activities, p \in Files : ScanCheck(a, p)
  \/ \E a \in Activities, p \in Files : ScanCreate(a, p)

SpecRace == Init /\ [][NextRace]_vars

\* ---- C33 ------------------------------------------------------------------
\* C33: under any interleaving of the concurrently running scanner
\* activities, at most one job is ever created for a given file path.
C33_OneJobPerFile ==
  \A i, j \in Ids : (source[i] # 0 /\ source[i] = source[j]) => i = j

\* ---- scanner: Stop while the goroutines are at work -----------------------
\* periodicScan receives a tick, or watchFiles receives a Create event: the
\* goroutine leaves its select and runs ScanAll or handleNewFile. A select
\* whose stop case is ready as well may still choose the other case, and
\* the ticker goes on firing for a periodicScan that waits on a nil stopCh.
TaskBegin(t) ==
  /\ t \in stasks
  /\ stpos[t] = "select" \/ (t = "periodic" /\ stpos[t] = "blind")
  /\ stpos' = [stpos EXCEPT ![t] = "busy"]
  /\ UNCHANGED <<mlock, mvars, scfg, sstop, sphase, supd, stasks, sdelayed, sevents,
                 fstate, processed, pstored, marked, source, deferred, mcall,
                 schecked>>

\* A file the goroutine handles while it is out of its select.
TaskScanFile(t, p) ==
  /\ t \in stasks
  /\ stpos[t] = "busy"
  /\ ScanFile(p)

\* The goroutine comes back to its for loop and evaluates s.stopCh for the
\* select. Stop has closed the channel and then stored nil in the field; the
\* goroutine reads the field without the lock, so after Stop it reads nil, or
\* (the read racing with the store) still the closed channel.
TaskReselect(t, seesNil) ==
  /\ t \in stasks
  /\ stpos[t] = "busy"
  /\ seesNil => sstop = "nil"
  /\ stpos' = [stpos EXCEPT ![t] = IF seesNil THEN "blind" ELSE "select"]
  /\ UNCHANGED <<mlock, mvars, scfg, sstop, sphase, supd, stasks, sdelayed, sevents,
                 fstate, processed, pstored, marked, source, deferred, mcall,
                 schecked>>

\* watchFiles waiting on a nil stopCh: Stop's watcher.Close() closes
\* watcher.Events, the receive yields ok = false and the goroutine returns.
\* periodicScan has no such second exit.
WatchExitClosed ==
  /\ "watch" \in stasks
  /\ stpos["watch"] = "blind"
  /\ sstop = "nil"
  /\ stasks' = stasks \ {"watch"}
  /\ stpos' = [stpos EXCEPT !["watch"] = "select"]
  /\ UNCHANGED <<mlock, mvars, scfg, sstop, sphase, supd, sdelayed, sevents, fstate,
                 processed, pstored, marked, source, deferred, mcall, schecked>>

NextHalt ==
  \/ \E x \in HybridConfigs : UpdateConfigBegin(x)
  \/ \E ok \in BOOLEAN : UpdateConfigRestart(ok)
  \/ \E p \in Files : StartScanFile(p)
  \/ \E ok \in BOOLEAN : StartReturn(ok)
  \/ \E p \in Files : FileCreated(p)
  \/ \E t \in {"periodic", "watch"} : TaskBegin(t)
  \/ \E t \in {"periodic", "watch"}, p \in Files : TaskScanFile(t, p)
  \/ \E t \in {"periodic", "watch"}, seesNil \in BOOLEAN : TaskReselect(t, seesNil)
  \/ StopSignal
  \/ \E t \in {"periodic", "watch"} : TaskExit(t)
  \/ WatchExitClosed
  \/ StopReturn

\* Every goroutine that can take a step is scheduled: ScanAll and
\* handleNewFile return, a goroutine whose select has a ready exit takes it,
\* and Stop goes on once wg.Wait returns.
SpecHalt ==
  /\ Init
  /\ [][NextHalt]_vars
  /\ \A t \in {"periodic", "watch"} :
       /\ WF_vars(\E seesNil \in BOOLEAN : TaskReselect(t, seesNil))
       /\ WF_vars(TaskExit(t))
  /\ WF_vars(WatchExitClosed)
  /\ WF_vars(StopReturn)

\* ---- C34 ------------------------------------------------------------------
\* C34: Scanner.Stop always terminates: whatever the periodic-scan task and
\* the watcher task are doing when Stop is called, each of them exits and
\* the wait in Stop returns.
C34_StopTerminates == (sphase = "stopping") ~> (sphase = "idle")

\* ---- C35 ------------------------------------------------------------------
\* C35: under any interleaving of RequeuePendingJobs with concurrent AddJob
\* calls no job is pushed onto the queue more than once: the queue never
\* holds a job twice, nor a job a worker has already dequeued.
C35_PushedOnce ==
  \A a \in 1..Len(queue) :
    /\ ~Dispatched(queue[a])
    /\ \A b \in 1..Len(queue) : queue[a] = queue[b] => a = b

\* ---- the manager's lock and the bounded queue -----------------------------
\* make(chan *Job, 1000): a push blocks while the queue holds QueueCap jobs.
QueueCap == 1

\* Manager.mu is a sync.RWMutex: Lock waits for the readers to leave, and
\* from the moment a Lock call waits, every new RLock call waits behind it.
NoLock == [rq |-> "idle", todo |-> <<>>, waiting |-> {}, unsaved |-> {}]
CanLock == mlock.rq # "loop"
CanRLock == mlock.waiting = {}

\* AddJob reaches m.mu.Lock().
AddJobLockCall ==
  /\ nextId <= MaxJobs
  /\ nobj < MaxJobs
  /\ <<"add", 0>> \notin mlock.waiting
  /\ mlock' = [mlock EXCEPT !.waiting = @ \cup {<<"add", 0>>}]
  /\ UNCHANGED <<mvars, svars>>

\* AddJob from Lock to Unlock: the job is stored in the map.
AddJobLocked ==
  /\ <<"add", 0>> \in mlock.waiting
  /\ CanLock
  /\ \E r \in TestRequests : AddJobStoreUnsaved(nextId, r.type, r.disc, r.priority)
  /\ mlock' = [mlock EXCEPT !.waiting = @ \ {<<"add", 0>>},
                            !.unsaved = @ \cup {nobj + 1}]
  /\ UNCHANGED <<mstop, svars>>

\* AddJob's m.Save(): the read lock, the file, the read lock released.
AddJobSave(o) ==
  /\ o \in mlock.unsaved
  /\ CanRLock
  /\ disk' = Save(jobs, job)
  /\ mlock' = [mlock EXCEPT !.unsaved = @ \ {o}]
  /\ UNCHANGED <<job, nobj, jobs, queue, adding, wjob, wphase, requeued,
                 epoch, nextId, pred, recovered, mstop, svars>>

\* AddJob's m.queue <- job on the bounded queue.
AddJobPushBounded(o) ==
  /\ o \in adding \ mlock.unsaved
  /\ Len(queue) < QueueCap
  /\ queue' = Enqueue(queue, o)
  /\ adding' = adding \ {o}
  /\ UNCHANGED <<job, nobj, jobs, wjob, wphase, disk, requeued, epoch,
                 nextId, pred, recovered, mstop, svars, mlock>>

\* CancelJob reaches m.mu.Lock().
CancelJobLockCall(id) ==
  /\ mlock.waiting = {}
  /\ mlock' = [mlock EXCEPT !.waiting = @ \cup {<<"cancel", id>>}]
  /\ UNCHANGED <<mvars, svars>>

\* CancelJob from Lock to the deferred Unlock.
CancelJobLocked(id) ==
  /\ <<"cancel", id>> \in mlock.waiting
  /\ CanLock
  /\ job' = IF CancelJobReturns(id)
            THEN [job EXCEPT ![jobs[id]].ctxDone = TRUE,
                             ![jobs[id]].status = StatusCancelled]
            ELSE job
  /\ mlock' = [mlock EXCEPT !.waiting = @ \ {<<"cancel", id>>}]
  /\ UNCHANGED <<nobj, jobs, queue, adding, wjob, wphase, disk, requeued,
                 epoch, nextId, pred, recovered, mstop, svars>>

\* RequeuePendingJobs takes the read lock and starts its range over m.jobs.
RequeueBegin ==
  /\ ~requeued
  /\ mlock.rq = "idle"
  /\ CanRLock
  /\ \E s \in Orders({o \in Objs : \E i \in Ids : jobs[i] = o}) :
       mlock' = [mlock EXCEPT !.rq = "loop", !.todo = s]
  /\ UNCHANGED <<mvars, svars>>

\* One iteration of the range: a Pending job is pushed, the read lock held.
RequeueVisit ==
  /\ mlock.rq = "loop"
  /\ mlock.todo # <<>>
  /\ LET o == Head(mlock.todo)
     IN IF job[o].status = StatusPending
        THEN /\ Len(queue) < QueueCap
             /\ queue' = Enqueue(queue, o)
        ELSE queue' = queue
  /\ mlock' = [mlock EXCEPT !.todo = Tail(@)]
  /\ UNCHANGED <<job, nobj, jobs, adding, wjob, wphase, disk, requeued,
                 epoch, nextId, pred, recovered, mstop, svars>>

\* The range is over: the deferred RUnlock, RequeuePendingJobs returns.
RequeueEnd ==
  /\ mlock.rq = "loop"
  /\ mlock.todo = <<>>
  /\ mlock' = [mlock EXCEPT !.rq = "done"]
  /\ requeued' = TRUE
  /\ UNCHANGED <<job, nobj, jobs, queue, adding, wjob, wphase, disk, epoch,
                 nextId, pred, recovered, mstop, svars>>

\* The end of processJob: its m.Save() needs the read lock.
PipelineReturnSave(w) ==
  /\ CanRLock
  /\ PipelineReturn(w)

\* What RequeuePendingJobs and the workers can do next.
RequeueOrWorkerStep ==
  \/ RequeueVisit
  \/ RequeueEnd
  \/ \E w \in PoolWorkers : WorkerTake(w)
  \/ \E w \in PoolWorkers : PipelineReturnSave(w)

NextLock ==
  \/ AddJobLockCall
  \/ AddJobLocked
  \/ \E o \in Objs : AddJobSave(o)
  \/ \E o \in Objs : AddJobPushBounded(o)
  \/ \E id \in Ids : CancelJobLockCall(id)
  \/ \E id \in Ids : CancelJobLocked(id)
  \/ RequeueBegin
  \/ RequeueOrWorkerStep

SpecLock == Init /\ [][NextLock]_vars

\* ---- C36 ------------------------------------------------------------------
\* C36: the job manager is deadlock-free: while RequeuePendingJobs is in its
\* loop with the read lock held, it or a worker can always take a step, also
\* while AddJob or CancelJob wait for the write lock.
C36_DeadlockFree == (mlock.rq = "loop") => ENABLED RequeueOrWorkerStep

\* ---- C37 ------------------------------------------------------------------
\* C37: once Manager.Stop has closed stopCh, no worker dequeues and starts a
\* job: every Pending job waiting in the queue keeps status Pending.
C37_NoStartAfterStop ==
  [][mstop # "running" =>
       \A k \in 1..Len(queue) :
         job[queue[k]].status = StatusPending => job'[queue[k]].status = StatusPending]_vars

\* ---- cancelling a job that waits in the queue -----------------------------
\* AddJob with a Job whose caller has already given it a cancellation scope
\* (job.ctx, job.cancel = context.WithCancel(...)), as TestManager_CancelJob
\* builds it: CancelJob accepts such a job before any worker has taken it.
AddJobWithScope(requests) ==
  /\ nextId <= MaxJobs
  /\ nobj < MaxJobs
  /\ \E r \in requests :
       LET o == nobj + 1
           h == [job EXCEPT ![o] = [NewJob(nextId, r.type, r.disc, r.priority)
                                      EXCEPT !.cancel = TRUE]]
           m == [jobs EXCEPT ![nextId] = o]
       IN /\ job' = h
          /\ jobs' = m
          /\ disk' = Save(m, h)
          /\ nobj' = o
          /\ adding' = adding \cup {o}
          /\ pred' = [pred EXCEPT ![o] = Returned]
  /\ nextId' = nextId + 1
  /\ UNCHANGED <<queue, wjob, wphase, requeued, epoch, recovered, mstop, svars,
                 mlock>>

NextCancel ==
  \/ AddJobWithScope(TestRequests)
  \/ AddJobPush
  \/ \E id \in Ids : CancelJob(id)
  \/ \E w \in Workers : WorkerTake(w)
  \/ \E w \in Workers : PipelineReturn(w)

SpecCancel == Init /\ [][NextCancel]_vars

\* The job waits in the queue and no worker has it.
Queued(o) == (\E k \in 1..Len(queue) : queue[k] = o) /\ ~Held(o)

\* ---- C38 ------------------------------------------------------------------
\* C38: a job set to Cancelled while it waits in the queue is never executed
\* by a worker: no step takes it from Cancelled to another status.
C38_CancelledNotRun ==
  [][\A o \in Objs :
       (Queued(o) /\ job[o].status = StatusCancelled)
       => job'[o].status = StatusCancelled]_vars

\* ---- the manager at work, fairly scheduled --------------------------------
\* The workers are started and never stopped, every pipeline returns, and
\* every call that can go on does: a goroutine blocked on the queue or on
\* the lock proceeds once it is let through (a reader held back by a waiting
\* writer is admitted when that writer unlocks, hence strong fairness for
\* the two m.Save() steps).
SpecLive ==
  /\ Init
  /\ [][NextLock]_vars
  /\ \A w \in PoolWorkers : WF_vars(WorkerTake(w)) /\ SF_vars(PipelineReturnSave(w))
  /\ \A o \in Objs : SF_vars(AddJobSave(o)) /\ WF_vars(AddJobPushBounded(o))
  /\ \A id \in Ids : WF_vars(CancelJobLocked(id))
  /\ WF_vars(AddJobLocked)
  /\ WF_vars(RequeueBegin) /\ WF_vars(RequeueVisit) /\ WF_vars(RequeueEnd)

\* AddJob has returned for the object: it is stored, saved and pushed.
Accepted(o) == o <= nobj /\ o \notin adding

\* ---- C39 ------------------------------------------------------------------
\* C39: with the workers started and not stopped and every pipeline
\* terminating, every job accepted by AddJob eventually reaches a terminal
\* status.
C39_AcceptedJobsFinish ==
  \A o \in Objs : Accepted(o) ~> (job[o].status \in Terminal)

\* ---- makemkv: the title handed to the extractor ---------------------------
\* The head of ExtractWithProgress: the argv of makemkvcon. Strings are
\* sequences of characters; source and output directory are left symbolic.
TitleAll == <<"a", "l", "l">>

ExtractArgs(opts) ==
  LET titleArg == IF opts.TitleIndex > 0 THEN Itoa(opts.TitleIndex) ELSE TitleAll
  IN <<"-r", "mkv", "file:SourcePath", titleArg, "OutputDir">>

\* The disc image branch of processJob and runExtraction: the disc is
\* scanned, a disc without titles ends the job, FindLargestTitle picks the
\* main feature and its index goes to ExtractWithProgress as TitleIndex.
ExtractWithProgressCall ==
  /\ ~mcall.made
  /\ \E lines \in SeqsUpTo(InfoLines, MaxLines) :
       \E titles \in ParseDiscInfo(lines) :
         /\ Len(titles) # 0
         /\ LET mainTitleIdx == FindLargestTitle(titles)
            IN mcall' = [made |-> TRUE, lines |-> lines, titles |-> titles,
                         index |-> mainTitleIdx,
                         args |-> ExtractArgs([TitleIndex |-> mainTitleIdx])]
  /\ UNCHANGED <<mlock, mvars, scfg, sstop, sphase, supd, stasks, sdelayed, sevents,
                 fstate, processed, pstored, marked, source, deferred,
                 schecked, stpos>>

NextExtract == ExtractWithProgressCall

SpecExtract == Init /\ [][NextExtract]_vars

\* ---- C40 ------------------------------------------------------------------
\* C40: the extractor is asked for exactly the title FindLargestTitle chose:
\* for every title index, 0 included, the title argument of the makemkvcon
\* command is that index in decimal, never "all".
C40_TitleArgIsChosenIndex ==
  mcall.made => mcall.args[4] = Itoa(mcall.index)

====
